---- MODULE Spec2Model ----
(***************************************************************************)
(* IVR automation: the call-flow state tracker (FixedIvrStateTracker), the *)
(* call endpoint client (IvrFlowTester), the AI-driven session driver      *)
(* (IvrIntegration.runAutomatedNavigation) and the AI session API server.  *)
(*                                                                         *)
(* Texts.  An IVR prompt is a sequence of tokens (words, punctuation marks *)
(* and the whitespace token " "); String.includes is contiguous            *)
(* sub-sequence, toLowerCase maps every token through LowerWord and trim   *)
(* strips whitespace tokens at both ends.  An AI action is a sequence of   *)
(* characters, because the driver takes it apart character by character.   *)
(***************************************************************************)
EXTENDS Integers, Sequences, FiniteSets, TLC

VARIABLES
  trackers,       \* instance -> FixedIvrStateTracker fields
  call,           \* the last tracker operation and what it returned
  ops,            \* number of tracker operations a caller has made directly
  pc,             \* position of runAutomatedNavigation
  sessionId,      \* IvrIntegration.sessionId
  sid,            \* IvrFlowTester.sid
  callActive,     \* IvrFlowTester.callActive
  lastResponse,   \* IvrFlowTester.lastResponse
  response,       \* local `response` of the navigation loop
  currentPrompt,  \* local `currentPrompt`
  action,         \* local `action`
  remainingDigits,\* local `remainingDigits` of a split input
  currentStep,    \* IvrIntegration.currentStep
  testCompleted,  \* local `testCompleted`
  history,        \* IvrIntegration.history
  result,         \* the object runAutomatedNavigation returns
  legs,           \* request legs of the current step, in order
  endCalls,       \* number of endCall requests made
  endSessions,    \* number of requests endSession has made
  sessions,       \* session API: the `sessions` object, session id -> session
  now,            \* session API: Date.now()
  nextCleanup,    \* session API: when the cleanup interval fires next
  created,        \* session API: number of session ids uuidv4 has given out
  timedOut,       \* session API: the session ids the cleanup has removed
  event,          \* session API: the last reply sent or cleanup run
  currentFlow,    \* IvrFlowTester.currentFlow
  testResults,    \* IvrFlowTester.testResults: flow -> success
  started         \* number of startCall calls, and the tracker at the last one

vars == <<trackers, call, ops, pc, sessionId, sid, callActive, lastResponse, response,
          currentPrompt, action, remainingDigits, currentStep, testCompleted,
          history, result, legs, endCalls, endSessions,
          sessions, now, nextCleanup, created, timedOut, event,
          currentFlow, testResults, started>>

apiVars == <<sessions, now, nextCleanup, created, timedOut, event>>

flowVars == <<currentFlow, testResults, started>>

trackerVars == <<trackers, call, ops>>
driverVars  == <<pc, sessionId, sid, callActive, lastResponse, response,
                 currentPrompt, action, remainingDigits, currentStep,
                 testCompleted, history, result, legs, endCalls,
                 endSessions>>

----------------------------------------------------------------------------
(* Bounds of the model *)

\* longest stateHistory the tester's tracker is driven to in a driver run
MaxHist == 2
\* number of operations a caller makes on the trackers directly
MaxOps == 4
\* largest explorationDepth passed to getNextAction
MaxDepth == 13
\* longest stateHistory of the tracker identifyState is asked on
MaxSeeds == 2
\* number of sessions created on the session API
MaxSessions == 1
\* longest message list of a session of the session API
MaxMessages == 1
\* how long the session API is observed, in cleanup intervals
MaxTicks == 11
\* number of calls a caller makes on the methods of the tester
MaxCalls == 4
\* number of messages a client posts in a conversation
MaxSends == 3

----------------------------------------------------------------------------
(* Text primitives *)

Null == "<null>"
NullText == <<Null>>
Space == " "

\* String.prototype.toLowerCase, token by token
LowerWord(w) ==
  CASE w = "After" -> "after"
    [] w = "Enter" -> "enter"
    [] w = "For" -> "for"
    [] w = "H" -> "h"
    [] w = "If" -> "if"
    [] w = "Is" -> "is"
    [] w = "Monday" -> "monday"
    [] w = "Our" -> "our"
    [] w = "Please" -> "please"
    [] w = "Press" -> "press"
    [] w = "Thank" -> "thank"
    [] w = "To" -> "to"
    [] w = "Today" -> "today"
    [] w = "Tuesday" -> "tuesday"
    [] w = "U" -> "u"
    [] w = "You" -> "you"
    [] OTHER -> w

ToLower(text) == [i \in 1..Len(text) |-> LowerWord(text[i])]

\* String.prototype.includes
Includes(text, pat) ==
  \E i \in 1..(Len(text) - Len(pat) + 1) : SubSeq(text, i, i + Len(pat) - 1) = pat

RECURSIVE TrimStart(_)
TrimStart(text) ==
  IF text # <<>> /\ Head(text) = Space THEN TrimStart(Tail(text)) ELSE text

RECURSIVE TrimEnd(_)
TrimEnd(text) ==
  IF text # <<>> /\ text[Len(text)] = Space
    THEN TrimEnd(SubSeq(text, 1, Len(text) - 1))
    ELSE text

\* String.prototype.trim
Trim(text) == TrimEnd(TrimStart(text))

----------------------------------------------------------------------------
(* State taxonomy *)

GREETING == "greeting"
MAIN_MENU == "main_menu"
REFILL_PRESCRIPTION == "refill_prescription"
CHECK_STATUS == "check_status"
PRESCRIBER_MENU == "prescriber_menu"
PHARMACY_HOURS == "pharmacy_hours"
WEEKLY_HOURS == "weekly_hours"
LEAVE_MESSAGE == "leave_message"
HOME_DELIVERY == "home_delivery"
REPEAT_OPTIONS == "repeat_options"
TRANSFER_TO_PHARMACY == "transfer_to_pharmacy"
ENTER_RX_NUMBER == "enter_rx_number"
CONFIRM_RX == "confirm_rx"
INVALID_SELECTION == "invalid_selection"
UNKNOWN == "unknown"

\* Object.values(IVR_STATES), in declaration order
IVR_STATES ==
  << GREETING, MAIN_MENU, REFILL_PRESCRIPTION, CHECK_STATUS, PRESCRIBER_MENU,
     PHARMACY_HOURS, WEEKLY_HOURS, LEAVE_MESSAGE, HOME_DELIVERY, REPEAT_OPTIONS,
     TRANSFER_TO_PHARMACY, ENTER_RX_NUMBER, CONFIRM_RX, INVALID_SELECTION, UNKNOWN >>

IvrStateSet == {IVR_STATES[i] : i \in 1..Len(IVR_STATES)}

\* Object.entries(STATE_PATTERNS), in declaration order
STATE_PATTERNS ==
  <<
    [state |-> GREETING, patterns |-> <<
        <<"global", "greeting">>,
        <<"welcome", "to">>,
        <<"Thank", "you", "for", "calling">> >>],
    [state |-> MAIN_MENU, patterns |-> <<
        <<"To", "refill", "a", "prescription", ",", "press", "1">>,
        <<"To", "check", "the", "status", "of", "a", "prescription", ",", "press", "2">>,
        <<"If", "you", "are", "a", "prescriber", ",", "press", "3">>,
        <<"To", "hear", "pharmacy", "hours", "and", "information", ",", "press", "4">>,
        <<"To", "leave", "a", "message", ",", "press", "5">>,
        <<"For", "our", "home", "delivery", "service", ",", "press", "7">>,
        <<"To", "repeat", "these", "options", ",", "press", "8">>,
        <<"To", "speak", "to", "the", "pharmacy", ",", "press", "9">> >>],
    [state |-> REFILL_PRESCRIPTION, patterns |-> <<
        <<"Please", "enter", "the", "prescription", "number">>,
        <<"Enter", "the", "prescription", "number", "you", "would", "like", "to", "refill">> >>],
    [state |-> CHECK_STATUS, patterns |-> <<
        <<"Please", "enter", "the", "prescription", "number", "you", "would", "like", "to", "check">>,
        <<"Enter", "the", "prescription", "number", "to", "check", "status">> >>],
    [state |-> PRESCRIBER_MENU, patterns |-> <<
        <<"For", "new", "prescriptions", "or", "to", "authorize", "refills", ",", "press", "1">>,
        <<"To", "transfer", "to", "the", "pharmacy", ",", "press", "2">>,
        <<"If", "you", "are", "a", "prescriber">> >>],
    [state |-> PHARMACY_HOURS, patterns |-> <<
        <<"Today", "we're", "open", "until">>,
        <<"Press", "1", "for", "our", "weekly", "hours">>,
        <<"pharmacy", "hours", "and", "information">> >>],
    [state |-> WEEKLY_HOURS, patterns |-> <<
        <<"Our", "normal", "business", "hours">>,
        <<"Monday", "from">>,
        <<"Tuesday", "from">> >>],
    [state |-> LEAVE_MESSAGE, patterns |-> <<
        <<"leave", "your", "message", "after", "the", "tone">>,
        <<"leave", "a", "message">>,
        <<"After", "you're", "finished", "with", "your", "message">> >>],
    [state |-> HOME_DELIVERY, patterns |-> <<
        <<"home", "delivery", "service">>,
        <<"mail", "order">>,
        <<"delivery", "service">> >>],
    [state |-> REPEAT_OPTIONS, patterns |-> <<
        <<"repeat", "these", "options">>,
        <<"repeat", "the", "menu">>,
        <<"hear", "the", "options", "again">> >>],
    [state |-> TRANSFER_TO_PHARMACY, patterns |-> <<
        <<"transferring", "you">>,
        <<"connect", "you">>,
        <<"speak", "to", "the", "pharmacy">> >>],
    [state |-> ENTER_RX_NUMBER, patterns |-> <<
        <<"enter", "the", "prescription", "number">>,
        <<"Please", "enter", "the", "prescription">>,
        <<"Enter", "your", "prescription">> >>],
    [state |-> CONFIRM_RX, patterns |-> <<
        <<"confirm">>,
        <<"Is", "this", "correct">>,
        <<"Press", "1", "to", "confirm">> >>],
    [state |-> INVALID_SELECTION, patterns |-> <<
        <<"You", "entered", "an", "invalid", "selection">>,
        <<"invalid", "option">>,
        <<"not", "a", "valid", "selection">> >>]
  >>

STATE_TRANSITIONS(s) ==
  CASE s = GREETING -> {MAIN_MENU}
    [] s = MAIN_MENU -> {REFILL_PRESCRIPTION, CHECK_STATUS, PRESCRIBER_MENU,
                         PHARMACY_HOURS, LEAVE_MESSAGE, HOME_DELIVERY, REPEAT_OPTIONS,
                         TRANSFER_TO_PHARMACY, INVALID_SELECTION, MAIN_MENU}
    [] s = REFILL_PRESCRIPTION -> {ENTER_RX_NUMBER, MAIN_MENU}
    [] s = CHECK_STATUS -> {ENTER_RX_NUMBER, MAIN_MENU}
    [] s = PRESCRIBER_MENU -> {TRANSFER_TO_PHARMACY, MAIN_MENU}
    [] s = PHARMACY_HOURS -> {WEEKLY_HOURS, MAIN_MENU}
    [] s = WEEKLY_HOURS -> {MAIN_MENU}
    [] s = LEAVE_MESSAGE -> {MAIN_MENU}
    [] s = HOME_DELIVERY -> {MAIN_MENU}
    [] s = REPEAT_OPTIONS -> {MAIN_MENU}
    [] s = TRANSFER_TO_PHARMACY -> {}
    [] s = ENTER_RX_NUMBER -> {CONFIRM_RX, MAIN_MENU}
    [] s = CONFIRM_RX -> {MAIN_MENU, TRANSFER_TO_PHARMACY}
    [] s = INVALID_SELECTION -> {MAIN_MENU}
    [] s = UNKNOWN -> IvrStateSet
    [] OTHER -> {}

\* the states STATE_TRANSITIONS has an entry for, in the order of the table
TransitionStates ==
  { GREETING, MAIN_MENU, REFILL_PRESCRIPTION, CHECK_STATUS, PRESCRIBER_MENU,
    PHARMACY_HOURS, WEEKLY_HOURS, LEAVE_MESSAGE, HOME_DELIVERY, REPEAT_OPTIONS,
    TRANSFER_TO_PHARMACY, ENTER_RX_NUMBER, CONFIRM_RX, INVALID_SELECTION,
    UNKNOWN }

\* the states STATE_PATTERNS has an entry for
PatternStates == {STATE_PATTERNS[k].state : k \in 1..Len(STATE_PATTERNS)}


----------------------------------------------------------------------------
(* FixedIvrStateTracker *)

Instances == {1, 2}

\* constructor: currentState UNKNOWN, no previous state, empty history, one
\* empty tally object per declared state, nothing discovered
NewTracker ==
  [ currentState       |-> UNKNOWN,
    previousState      |-> Null,
    stateHistory       |-> <<>>,
    stateTransitions   |-> [s \in IvrStateSet |-> << >>],
    discoveredStates   |-> {},
    discoveredPatterns |-> <<>> ]

\* first state of an ordered (state, patterns) table with a pattern contained
\* in lowerText; Null when no pattern matches
RECURSIVE ScanPatterns(_, _)
ScanPatterns(table, lowerText) ==
  IF table = <<>> THEN Null
  ELSE IF \E k \in 1..Len(Head(table).patterns) :
            Includes(lowerText, ToLower(Head(table).patterns[k]))
    THEN Head(table).state
    ELSE ScanPatterns(Tail(table), lowerText)

\* mutant: the discovered patterns are scanned before the special cases and
\* the static table
identifyStateRegistryFirst(t, responseText) ==
  IF responseText = NullText \/ responseText = <<>> THEN UNKNOWN
  ELSE
    LET lowerText == ToLower(responseText)
        dynamic == ScanPatterns(t.discoveredPatterns, lowerText)
        static == ScanPatterns(STATE_PATTERNS, lowerText)
    IN
    IF dynamic # Null THEN dynamic
    ELSE IF Includes(lowerText, <<"please", "enter", "the", "prescription", "number">>)
      THEN IF Includes(lowerText, <<"refill">>)
                \/ t.previousState = REFILL_PRESCRIPTION
             THEN REFILL_PRESCRIPTION
           ELSE IF Includes(lowerText, <<"status">>)
                     \/ t.previousState = CHECK_STATUS
             THEN CHECK_STATUS
           ELSE ENTER_RX_NUMBER
    ELSE IF Includes(lowerText, <<"for", "new", "prescriptions", "or", "to",
                                  "authorize", "refills">>)
      THEN PRESCRIBER_MENU
    ELSE IF Includes(lowerText, <<"leave", "your", "message", "after", "the", "tone">>)
      THEN LEAVE_MESSAGE
    ELSE IF Includes(lowerText, <<"invalid", "selection">>)
      THEN INVALID_SELECTION
    ELSE IF static # Null THEN static ELSE UNKNOWN

identifyState(t, responseText) ==
  IF responseText = NullText \/ responseText = <<>> THEN UNKNOWN
  ELSE
    LET lowerText == ToLower(responseText) IN
    IF Includes(lowerText, <<"please", "enter", "the", "prescription", "number">>)
      THEN IF Includes(lowerText, <<"refill">>)
                \/ t.previousState = REFILL_PRESCRIPTION
             THEN REFILL_PRESCRIPTION
           ELSE IF Includes(lowerText, <<"status">>)
                     \/ t.previousState = CHECK_STATUS
             THEN CHECK_STATUS
           ELSE ENTER_RX_NUMBER
    ELSE IF Includes(lowerText, <<"for", "new", "prescriptions", "or", "to",
                                  "authorize", "refills">>)
      THEN PRESCRIBER_MENU
    ELSE IF Includes(lowerText, <<"leave", "your", "message", "after", "the", "tone">>)
      THEN LEAVE_MESSAGE
    ELSE IF Includes(lowerText, <<"invalid", "selection">>)
      THEN INVALID_SELECTION
    ELSE
      LET static == ScanPatterns(STATE_PATTERNS, lowerText) IN
      IF static # Null THEN static
      ELSE
        LET dynamic == ScanPatterns(t.discoveredPatterns, lowerText) IN
        IF dynamic # Null THEN dynamic ELSE UNKNOWN

\* mutant: a missing entry is set to 0 and not counted
IncrementedWhenPresent(tally, k) ==
  IF k \in DOMAIN tally
    THEN [tally EXCEPT ![k] = @ + 1]
    ELSE (k :> 0) @@ tally

\* tally object `tally` with the count of key k incremented (a missing or zero
\* entry is first set to 0)
Incremented(tally, k) ==
  IF k \in DOMAIN tally
    THEN [tally EXCEPT ![k] = @ + 1]
    ELSE (k :> 1) @@ tally

\* mutant: the state that is left is not remembered
AdvanceKeepingPrevious(t, newState) ==
  [t EXCEPT !.currentState  = newState,
            !.stateHistory  = Append(t.stateHistory, newState)]

\* the tracker after the transition to newState has been recorded
Advance(t, newState) ==
  [t EXCEPT !.previousState = t.currentState,
            !.currentState  = newState,
            !.stateHistory  = Append(t.stateHistory, newState)]

\* isValidTransition: newState is a declared successor of the current state
\* (STATE_TRANSITIONS[currentState] || []), or the current state is UNKNOWN
isValidTransition(t, newState) ==
  newState \in STATE_TRANSITIONS(t.currentState) \/ t.currentState = UNKNOWN

\* the else branch of `if (isValidTransition)`: "Still update the state even
\* if invalid transition"
AdvanceInvalid(t, newState) == Advance(t, newState)

\* the tracker after the comparison of newState with the current state has
\* found them different and the tally has been counted
Recorded(t, newState) ==
  IF isValidTransition(t, newState)
    THEN Advance(t, newState)
    ELSE AdvanceInvalid(t, newState)

\* mutant: the transition is recorded without comparing the states
updateStateAlways(t, responseText) ==
  LET newState == identifyState(t, responseText)
      t1 == [t EXCEPT !.discoveredStates = @ \cup {newState}]
  IN [t |-> Advance(t1, newState), ret |-> newState, threw |-> FALSE]

\* updateState: [t |-> the tracker afterwards, ret |-> the returned state,
\*               threw |-> whether a TypeError was raised]
updateState(t, responseText) ==
  LET newState == identifyState(t, responseText)
      t1 == [t EXCEPT !.discoveredStates = @ \cup {newState}]
  IN
  IF newState # t.currentState
    THEN IF t.currentState # UNKNOWN
           THEN IF t.currentState \notin DOMAIN t1.stateTransitions
                  \* this.stateTransitions[currentState] is undefined
                  THEN [t |-> t1, ret |-> Null, threw |-> TRUE]
                  ELSE LET t2 == [t1 EXCEPT !.stateTransitions[t.currentState] =
                                       Incremented(@, newState)]
                       IN [t |-> Recorded(t2, newState), ret |-> newState, threw |-> FALSE]
           ELSE [t |-> Recorded(t1, newState), ret |-> newState, threw |-> FALSE]
    ELSE [t |-> t1, ret |-> t1.currentState, threw |-> FALSE]

\* index of the registry entry of `state`, 0 when it has none
RegistryIndex(registry, state) ==
  IF \E i \in 1..Len(registry) : registry[i].state = state
    THEN CHOOSE i \in 1..Len(registry) : registry[i].state = state
    ELSE 0

\* mutant: the pattern is appended without looking for it in the list
addStatePatternAgain(t, state, pattern) ==
  LET reg0 == t.discoveredPatterns
      reg1 == IF RegistryIndex(reg0, state) = 0
                THEN Append(reg0, [state |-> state, patterns |-> <<>>])
                ELSE reg0
      i == RegistryIndex(reg1, state)
  IN [t EXCEPT !.discoveredPatterns = [reg1 EXCEPT ![i].patterns = Append(@, pattern)]]

addStatePattern(t, state, pattern) ==
  LET reg0 == t.discoveredPatterns
      reg1 == IF RegistryIndex(reg0, state) = 0
                THEN Append(reg0, [state |-> state, patterns |-> <<>>])
                ELSE reg0
      i == RegistryIndex(reg1, state)
  IN
  IF \E k \in 1..Len(reg1[i].patterns) : reg1[i].patterns[k] = pattern
    THEN [t EXCEPT !.discoveredPatterns = reg1]
    ELSE [t EXCEPT !.discoveredPatterns =
                     [reg1 EXCEPT ![i].patterns = Append(@, pattern)]]

\* mutant: reset builds the tracker anew
resetAsConstructed(t) == NewTracker

reset(t) ==
  [t EXCEPT !.currentState = UNKNOWN,
            !.previousState = Null,
            !.stateHistory = <<>>]

\* the states STATE_DTMF_OPTIONS has an entry for
DtmfOptionStates ==
  { MAIN_MENU, PHARMACY_HOURS, WEEKLY_HOURS, PRESCRIBER_MENU, CONFIRM_RX,
    LEAVE_MESSAGE, REPEAT_OPTIONS, HOME_DELIVERY, UNKNOWN }

STATE_DTMF_OPTIONS(s) ==
  CASE s = MAIN_MENU -> <<"1", "2", "3", "4", "5", "7", "8", "9">>
    [] s = PHARMACY_HOURS -> <<"1", "2", "9">>
    [] s = WEEKLY_HOURS -> <<"9">>
    [] s = PRESCRIBER_MENU -> <<"1", "2">>
    [] s = CONFIRM_RX -> <<"1", "2">>
    [] s = LEAVE_MESSAGE -> <<"#">>
    [] s = REPEAT_OPTIONS -> <<"1", "2", "3", "4", "5", "7", "8", "9">>
    [] s = HOME_DELIVERY -> <<"9">>
    [] s = UNKNOWN -> <<"1", "2", "3", "4", "5", "6", "7", "8", "9", "0", "*", "#">>

RxNumber == <<"0", "0", "0", "1", "2", "3", "4">>

\* mutant: the default branch answers like the invalid-selection branch
DefaultActionBack == [action |-> "default", input |-> <<"9">>]

\* the `default:` branch of the switch
DefaultAction == [action |-> "default", input |-> <<>>]

\* the switch of getNextAction over the current state
ScriptedAction(s) ==
  CASE s = GREETING -> [action |-> "continue", input |-> <<>>]
    [] s = MAIN_MENU -> [action |-> "hours", input |-> <<"4">>]
    [] s = PHARMACY_HOURS -> [action |-> "weekly", input |-> <<"1">>]
    [] s = WEEKLY_HOURS -> [action |-> "back", input |-> <<"9">>]
    [] s = REFILL_PRESCRIPTION -> [action |-> "default", input |-> RxNumber]
    [] s = ENTER_RX_NUMBER -> [action |-> "default", input |-> RxNumber]
    [] s = CHECK_STATUS -> [action |-> "default", input |-> RxNumber]
    [] s = CONFIRM_RX -> [action |-> "confirm", input |-> <<"1">>]
    [] s = PRESCRIBER_MENU -> [action |-> "transfer", input |-> <<"2">>]
    [] s = LEAVE_MESSAGE -> [action |-> "finish", input |-> <<"#">>]
    [] s = HOME_DELIVERY -> [action |-> "back", input |-> <<"9">>]
    [] s = REPEAT_OPTIONS -> [action |-> "hours", input |-> <<"4">>]
    [] s = TRANSFER_TO_PHARMACY -> [action |-> "default", input |-> <<>>]
    [] s = INVALID_SELECTION -> [action |-> "default", input |-> <<"9">>]
    [] OTHER -> DefaultAction

\* mutant: a state without options has none to explore
getNextActionNoFallback(t, mode, explorationDepth) ==
  IF mode = "explore" /\ t.currentState \in DtmfOptionStates
    THEN LET dtmfOptions == STATE_DTMF_OPTIONS(t.currentState)
             optionIndex == explorationDepth % Len(dtmfOptions)
         IN [action |-> "explore", input |-> <<dtmfOptions[optionIndex + 1]>>]
    ELSE ScriptedAction(t.currentState)

\* getNextAction({mode, explorationDepth}): the action name and the input
getNextAction(t, mode, explorationDepth) ==
  LET dtmfOptions == IF t.currentState \in DtmfOptionStates
                       THEN STATE_DTMF_OPTIONS(t.currentState)
                       ELSE STATE_DTMF_OPTIONS(UNKNOWN)
  IN
  IF mode = "explore" /\ Len(dtmfOptions) > 0
    THEN LET optionIndex == explorationDepth % Len(dtmfOptions)
         IN [action |-> "explore", input |-> <<dtmfOptions[optionIndex + 1]>>]
    ELSE ScriptedAction(t.currentState)

\* STATE_INPUTS: per state, the token of each action name ('' is <<>>)
STATE_INPUTS ==
  (GREETING :> ("continue" :> <<>> @@ "default" :> <<>>))
  @@ (MAIN_MENU :> ("refill" :> <<"1">> @@ "status" :> <<"2">>
                    @@ "prescriber" :> <<"3">> @@ "hours" :> <<"4">>
                    @@ "message" :> <<"5">> @@ "delivery" :> <<"7">>
                    @@ "repeat" :> <<"8">> @@ "pharmacy" :> <<"9">>
                    @@ "default" :> <<"9">>))
  @@ (REFILL_PRESCRIPTION :> ("default" :> RxNumber))
  @@ (CHECK_STATUS :> ("default" :> RxNumber))
  @@ (PRESCRIBER_MENU :> ("new_rx" :> <<"1">> @@ "transfer" :> <<"2">>
                          @@ "default" :> <<"2">>))
  @@ (PHARMACY_HOURS :> ("weekly" :> <<"1">> @@ "back" :> <<"2">>
                         @@ "default" :> <<"1">>))
  @@ (WEEKLY_HOURS :> ("back" :> <<"9">> @@ "default" :> <<"9">>))
  @@ (LEAVE_MESSAGE :> ("finish" :> <<"#">> @@ "default" :> <<"#">>))
  @@ (HOME_DELIVERY :> ("back" :> <<"9">> @@ "default" :> <<"9">>))
  @@ (REPEAT_OPTIONS :> ("default" :> <<>>))
  @@ (TRANSFER_TO_PHARMACY :> ("default" :> <<>>))
  @@ (ENTER_RX_NUMBER :> ("default" :> RxNumber))
  @@ (CONFIRM_RX :> ("confirm" :> <<"1">> @@ "cancel" :> <<"2">>
                     @@ "default" :> <<"1">>))
  @@ (INVALID_SELECTION :> ("default" :> <<"9">>))
  @@ (UNKNOWN :> ("default" :> <<>>))

\* stateInputs[key]: a key the map does not have and an empty token are both
\* falsy, and are both <<>> here
InputOf(stateInputs, key) ==
  IF key \in DOMAIN stateInputs THEN stateInputs[key] ELSE <<>>

\* mutant: the default token of the state is not looked up
getInputWithoutDefault(t, actionName, defaultInput) ==
  LET stateInputs == IF t.currentState \in DOMAIN STATE_INPUTS
                       THEN STATE_INPUTS[t.currentState]
                       ELSE <<>>
  IN IF InputOf(stateInputs, actionName) # <<>>
       THEN InputOf(stateInputs, actionName)
       ELSE defaultInput

\* getInput(action, defaultInput)
getInput(t, actionName, defaultInput) ==
  LET stateInputs == IF t.currentState \in DOMAIN STATE_INPUTS
                       THEN STATE_INPUTS[t.currentState]
                       ELSE <<>>
  IN IF InputOf(stateInputs, actionName) # <<>>
       THEN InputOf(stateInputs, actionName)
       ELSE IF InputOf(stateInputs, "default") # <<>>
              THEN InputOf(stateInputs, "default")
              ELSE defaultInput

----------------------------------------------------------------------------
(* Tracker operations, as a caller invokes them *)

\* `call` records the last operation a caller made on a tracker: the method,
\* the instance, its text argument, the tracker as it was before the call, the
\* value returned and whether the call raised
NoCall ==
  [op |-> "none", inst |-> 0, text |-> <<>>, mode |-> Null, depth |-> 0,
   before |-> NewTracker, ret |-> Null, threw |-> FALSE]

\* prompts fed to the trackers
MainMenuPrompt == <<"To", "refill", "a", "prescription", ",", "press", "1">>
HoursPrompt    == <<"Today", "we're", "open", "until", "nine">>
WeeklyPrompt   == <<"Our", "normal", "business", "hours">>
ConfirmPrompt  == <<"Press", "1", "to", "confirm">>
BillingPrompt  == <<"billing", "department">>
BlankPrompt    == <<Space>>

TrackerTexts == { <<>>, NullText, WeeklyPrompt, ConfirmPrompt, BillingPrompt }

\* (state, pattern) pairs registered at run time
RuntimeStates == {"billing"}
RuntimePatterns == {BillingPrompt}

\* mutant: the pattern registry is one object shared by all instances
StoreShared(ts, i, t) ==
  [j \in Instances |->
     IF j = i THEN t ELSE [ts[j] EXCEPT !.discoveredPatterns = t.discoveredPatterns]]

\* the fields a method writes are those of `this`: every instance has the
\* objects its constructor made, and no other instance refers to them
Store(ts, i, t) == [ts EXCEPT ![i] = t]

UpdateStateOp(i, text) ==
  LET r == updateState(trackers[i], text) IN
  /\ ops < MaxOps
  /\ ops' = ops + 1
  /\ trackers' = Store(trackers, i, r.t)
  /\ call' = [op |-> "updateState", inst |-> i, text |-> text,
              mode |-> Null, depth |-> 0,
              before |-> trackers[i], ret |-> r.ret, threw |-> r.threw]
  /\ UNCHANGED driverVars
  /\ UNCHANGED apiVars
  /\ UNCHANGED flowVars

AddStatePatternOp(i, state, pattern) ==
  /\ ops < MaxOps
  /\ ops' = ops + 1
  /\ trackers' = Store(trackers, i, addStatePattern(trackers[i], state, pattern))
  /\ call' = [op |-> "addStatePattern", inst |-> i, text |-> pattern,
              mode |-> Null, depth |-> 0,
              before |-> trackers[i], ret |-> Null, threw |-> FALSE]
  /\ UNCHANGED driverVars
  /\ UNCHANGED apiVars
  /\ UNCHANGED flowVars

ResetOp(i) ==
  /\ ops < MaxOps
  /\ ops' = ops + 1
  /\ trackers' = Store(trackers, i, reset(trackers[i]))
  /\ call' = [op |-> "reset", inst |-> i, text |-> <<>>,
              mode |-> Null, depth |-> 0, before |-> trackers[i],
              ret |-> Null, threw |-> FALSE]
  /\ UNCHANGED driverVars
  /\ UNCHANGED apiVars
  /\ UNCHANGED flowVars

\* mutant: classifying a prompt also records the state it is classified as
IdentifyStateOpRecording(i, text) ==
  /\ call' = [op |-> "identifyState", inst |-> i, text |-> text,
              mode |-> Null, depth |-> 0,
              before |-> trackers[i], ret |-> identifyState(trackers[i], text),
              threw |-> FALSE]
  /\ trackers' = Store(trackers, i, updateState(trackers[i], text).t)
  /\ UNCHANGED ops
  /\ UNCHANGED driverVars
  /\ UNCHANGED apiVars
  /\ UNCHANGED flowVars

\* identifyState called by itself: the tracker is only read
IdentifyStateOp(i, text) ==
  /\ call' = [op |-> "identifyState", inst |-> i, text |-> text,
              mode |-> Null, depth |-> 0,
              before |-> trackers[i], ret |-> identifyState(trackers[i], text),
              threw |-> FALSE]
  /\ UNCHANGED <<trackers, ops>>
  /\ UNCHANGED driverVars
  /\ UNCHANGED apiVars
  /\ UNCHANGED flowVars

\* getNextAction: the tracker is only read
GetNextActionOp(i, mode, explorationDepth) ==
  /\ call' = [op |-> "getNextAction", inst |-> i, text |-> <<>>,
              mode |-> mode, depth |-> explorationDepth,
              before |-> trackers[i],
              ret |-> getNextAction(trackers[i], mode, explorationDepth),
              threw |-> FALSE]
  /\ UNCHANGED <<trackers, ops>>
  /\ UNCHANGED driverVars
  /\ UNCHANGED apiVars
  /\ UNCHANGED flowVars

\* getInput called with its default defaultInput: the tracker is only read
GetInputOp(i, actionName) ==
  /\ call' = [op |-> "getInput", inst |-> i, text |-> <<actionName>>,
              mode |-> Null, depth |-> 0,
              before |-> trackers[i],
              ret |-> getInput(trackers[i], actionName, <<>>),
              threw |-> FALSE]
  /\ UNCHANGED <<trackers, ops>>
  /\ UNCHANGED driverVars
  /\ UNCHANGED apiVars
  /\ UNCHANGED flowVars

\* action names asked of getInput: names of the scripted policy and one
\* that no input map has
ActionNames == {"continue", "hours", "weekly", "back", "transfer", "default", "menu"}

\* the `mode` option
Modes == {"normal", "explore"}

\* the patterns the static table declares for its k-th state
PatternsOf(k) ==
  {STATE_PATTERNS[k].patterns[n] : n \in 1..Len(STATE_PATTERNS[k].patterns)}

DeclaredPatterns == UNION {PatternsOf(k) : k \in 1..Len(STATE_PATTERNS)}

\* prompts of the refill and of the status branch
RefillPrompt ==
  <<"Enter", "the", "prescription", "number", "you", "would", "like", "to", "refill">>
StatusPrompt ==
  <<"Enter", "the", "prescription", "number", "to", "check", "status">>

\* texts given to identifyState: every declared pattern as it is written, and
\* in lower case inside a longer sentence; an empty, a null, a blank and an
\* unmatched text
ClassifyTexts ==
  DeclaredPatterns
    \cup {<<"Hello", ".">> \o ToLower(p) \o <<".">> : p \in DeclaredPatterns}
    \cup {<<>>, NullText, BlankPrompt, <<"Hello", ".">>}

\* one prompt per state of the static table: the last pattern it declares
PolicyTexts ==
  {STATE_PATTERNS[k].patterns[Len(STATE_PATTERNS[k].patterns)] :
     k \in 1..Len(STATE_PATTERNS)} \cup {<<>>, BillingPrompt}

\* prompts that bring the tracker into the states identifyState looks back at
SeedTexts == {RefillPrompt, StatusPrompt, WeeklyPrompt}

\* states and patterns registered at run time in the registry runs: a pattern
\* may be registered for both states, and one of the patterns is part of a
\* prompt the static table matches
RegistryStates == {"billing", "operator"}
RegistryPatterns == {<<"department">>, <<"business", "hours">>}

\* prompts classified in the registry runs
RegistryTexts ==
  { BillingPrompt, WeeklyPrompt, <<"Please", "enter", "the", "prescription", "number">>,
    <<"Hello", ".">>, <<>> }

----------------------------------------------------------------------------
(* IvrFlowTester: responses of the call endpoint *)

\* parseXmlResponse gives null for an unparsable body, else the parsed
\* document with its Response.Say and Response.Gather.Say texts
NullResponse == [parsed |-> FALSE, Say |-> <<>>, GatherSay |-> <<>>]
Xml(say, gatherSay) == [parsed |-> TRUE, Say |-> say, GatherSay |-> gatherSay]

extractTextFromResponse(r) ==
  IF ~r.parsed THEN <<>> ELSE r.Say \o r.GatherSay

\* what the endpoint answers in the driver runs
EndpointResponses ==
  { NullResponse, Xml(BlankPrompt, <<>>), Xml(<<>>, MainMenuPrompt) }

\* the tracker of the one IvrFlowTester of a driver run
TesterTracker == 1

\* the bound on the tester's tracker (its tallies never sum to more than the
\* length of its history, as a driver run never resets it)
WithinBounds(t) == Len(t.stateHistory) <= MaxHist

\* responses under which the tester's tracker stays within the bounds
Offered(r) ==
  WithinBounds(updateState(trackers[TesterTracker], extractTextFromResponse(r)).t)

\* the part of startCall / sendDtmf / continueCall after a successful request:
\* remember the parsed response and feed its text to the state tracker
Received(r) ==
  LET text == extractTextFromResponse(r)
      u == updateState(trackers[TesterTracker], text)
  IN /\ lastResponse' = r
     /\ trackers' = [trackers EXCEPT ![TesterTracker] = u.t]
     /\ UNCHANGED call

\* a request of the tester that threw: nothing of the tester changes
Failed == UNCHANGED <<lastResponse, trackers, call>>

\* no call has been started yet
NoStart == [calls |-> 0, before |-> NewTracker]

----------------------------------------------------------------------------
(* Session API server: sessions, requests and the cleanup interval *)

\* milliseconds
SESSION_TIMEOUT == 10 * 60 * 1000
SESSION_CHECK_INTERVAL == 60 * 1000

\* the clock is read at multiples of the check interval
Tick == SESSION_CHECK_INTERVAL

SessionIds == 1..MaxSessions

\* the `message` of a request body: missing, or a text
Messages == {<<>>, <<"hello">>}

NoEvent ==
  [kind |-> "none", req |-> Null, id |-> 0, message |-> <<>>, expired |-> FALSE,
   status |-> 0, error |-> Null]

\* a reply to request `req` on session `id`
Reply(req, id, message, status, error) ==
  [kind |-> "reply", req |-> req, id |-> id, message |-> message,
   expired |-> id \in timedOut, status |-> status, error |-> error]

NotFound(req, id, message) == Reply(req, id, message, 404, "Session not found")

\* sessions with the entry of id set to (or created as) session
Put(id, session) ==
  [k \in DOMAIN sessions \cup {id} |-> IF k = id THEN session ELSE sessions[k]]

\* cleanupSession: delete sessions[sessionId]
cleanupSession(all, id) ==
  [k \in DOMAIN all \ {id} |-> all[k]]

\* POST /api/sessions: createSession under a fresh uuid
CreateSession ==
  /\ created < MaxSessions
  /\ created' = created + 1
  /\ sessions' = Put(created + 1,
                     [profile |-> "IVR_tester", messages |-> <<>>, lastActivity |-> now])
  /\ event' = Reply("create", created + 1, <<>>, 200, Null)
  /\ UNCHANGED <<now, nextCleanup, timedOut>>
  /\ UNCHANGED <<trackerVars, driverVars, flowVars>>

\* GET /api/sessions/:sessionId
GetSession(id) ==
  /\ event' = IF id \notin DOMAIN sessions
                THEN NotFound("info", id, <<>>)
                ELSE Reply("info", id, <<>>, 200, Null)
  /\ UNCHANGED <<sessions, now, nextCleanup, created, timedOut>>
  /\ UNCHANGED <<trackerVars, driverVars, flowVars>>

\* GET /api/sessions/:sessionId/messages
GetMessages(id) ==
  /\ event' = IF id \notin DOMAIN sessions
                THEN NotFound("messages", id, <<>>)
                ELSE Reply("messages", id, <<>>, 200, Null)
  /\ UNCHANGED <<sessions, now, nextCleanup, created, timedOut>>
  /\ UNCHANGED <<trackerVars, driverVars, flowVars>>

\* `!message`: the request body has no message, or an empty one
NoMessage(message) == message = <<>>

\* sendMessage on an existing session: the activity time is updated and the
\* user message is pushed before the wrapper script runs; the reply is pushed
\* only when the script succeeded (messages are modelled by their roles)
sendMessage(session, ok) ==
  [session EXCEPT !.lastActivity = now,
                  !.messages = IF ok THEN @ \o <<"user", "assistant">>
                                     ELSE Append(@, "user")]

\* POST /api/sessions/:sessionId/messages with sendMessage: the wrapper script
\* answers (ok) or fails, and the event loop is blocked for `took` milliseconds
PostMessage(id, message, ok, took) ==
  /\ IF NoMessage(message)
       THEN /\ event' = Reply("send", id, message, 400, "No message provided")
            /\ UNCHANGED <<sessions, now>>
     ELSE IF id \notin DOMAIN sessions
       THEN /\ event' = NotFound("send", id, message)
            /\ UNCHANGED <<sessions, now>>
     ELSE /\ Len(sessions[id].messages) < MaxMessages
          /\ now + took <= MaxTicks * Tick
          /\ now' = now + took
          /\ sessions' = Put(id, sendMessage(sessions[id], ok))
          /\ event' = IF ok THEN Reply("send", id, message, 200, Null)
                            ELSE Reply("send", id, message, 500, "Command failed")
  /\ UNCHANGED <<nextCleanup, created, timedOut>>
  /\ UNCHANGED <<trackerVars, driverVars, flowVars>>

\* a conversation: messages posted to a session one after another, up to
\* MaxSends of them
PostNext(id, ok, took) ==
  /\ id \in DOMAIN sessions
  /\ Len(SelectSeq(sessions[id].messages, LAMBDA role : role = "user")) < MaxSends
  /\ now + took <= MaxTicks * Tick
  /\ now' = now + took
  /\ sessions' = Put(id, sendMessage(sessions[id], ok))
  /\ event' = IF ok THEN Reply("send", id, <<"hello">>, 200, Null)
                    ELSE Reply("send", id, <<"hello">>, 500, "Command failed")
  /\ UNCHANGED <<nextCleanup, created, timedOut>>
  /\ UNCHANGED <<trackerVars, driverVars, flowVars>>

\* DELETE /api/sessions/:sessionId
DeleteSession(id) ==
  /\ IF id \in DOMAIN sessions
       THEN /\ sessions' = cleanupSession(sessions, id)
            /\ event' = Reply("delete", id, <<>>, 200, Null)
       ELSE /\ event' = NotFound("delete", id, <<>>)
            /\ UNCHANGED sessions
  /\ UNCHANGED <<now, nextCleanup, created, timedOut>>
  /\ UNCHANGED <<trackerVars, driverVars, flowVars>>

\* mutant: a session is timed out as soon as it has been idle for the timeout
IsTimedOutAtTimeout(inactiveTime) == inactiveTime >= SESSION_TIMEOUT

\* inactiveTime > SESSION_TIMEOUT
IsTimedOut(inactiveTime) == inactiveTime > SESSION_TIMEOUT

\* the callback of the cleanup interval
Cleanup ==
  LET gone == {id \in DOMAIN sessions : IsTimedOut(now - sessions[id].lastActivity)}
  IN /\ now >= nextCleanup
     /\ nextCleanup' = now + SESSION_CHECK_INTERVAL
     /\ sessions' = [k \in DOMAIN sessions \ gone |-> sessions[k]]
     /\ timedOut' = timedOut \cup gone
     /\ event' = [kind |-> "cleanup", at |-> now,
                  idle |-> [id \in DOMAIN sessions |-> now - sessions[id].lastActivity],
                  left |-> DOMAIN sessions']
     /\ UNCHANGED <<now, created>>
     /\ UNCHANGED <<trackerVars, driverVars, flowVars>>

\* time passes while the server waits; a due cleanup runs first
Wait ==
  /\ now < nextCleanup
  /\ now < MaxTicks * Tick
  /\ now' = now + Tick
  /\ UNCHANGED <<sessions, nextCleanup, created, timedOut, event>>
  /\ UNCHANGED <<trackerVars, driverVars, flowVars>>

----------------------------------------------------------------------------
(* IvrIntegration: the AI answer and the action taken from it *)

Digits == {"0", "1", "2", "3", "4", "5", "6", "7", "8", "9"}

\* /^\d+$/
IsDigits(a) == Len(a) >= 1 /\ \A i \in 1..Len(a) : a[i] \in Digits

\* /^\d{2,}$/
IsMultiDigit(a) == Len(a) >= 2 /\ \A i \in 1..Len(a) : a[i] \in Digits

\* the branch "send as DTMF": digits only, or exactly '*' or '#'
IsDtmf(a) == IsDigits(a) \/ a = <<"*">> \/ a = <<"#">>

\* action.match(/\d+/): the first maximal run of digits, <<>> when there is none
DigitMatch(a) ==
  IF \A i \in 1..Len(a) : a[i] \notin Digits THEN <<>>
  ELSE LET from == CHOOSE i \in 1..Len(a) :
                     a[i] \in Digits /\ \A j \in 1..(i - 1) : a[j] \notin Digits
           to == CHOOSE k \in from..Len(a) :
                   /\ \A j \in from..k : a[j] \in Digits
                   /\ (k = Len(a) \/ a[k + 1] \notin Digits)
       IN SubSeq(a, from, to)

\* String.prototype.charAt(0)
CharAt0(a) == IF a = <<>> THEN <<>> ELSE <<a[1]>>

\* String.prototype.substring(1)
Substring1(a) == SubSeq(a, 2, Len(a))

\* extractAction: the last line of the answer that is not empty after trimming
extractAction(answer) ==
  LET trimmed == [i \in 1..Len(answer) |-> Trim(answer[i])]
      lines == SelectSeq(trimmed, LAMBDA l : l # <<>>)
  IN IF lines = <<>> THEN <<>> ELSE lines[Len(lines)]

HangUpText == <<"h", "a", "n", "g", " ", "u", "p">>

\* mutant: the comparison is case-sensitive
IsHangUpExact(a) == a = HangUpText

\* action.toLowerCase() === 'hang up'
IsHangUp(a) == ToLower(a) = HangUpText

\* mutant: no input is ever split
SplitDigitsNever(a) == <<>>

\* the digit string that is sent in two legs, <<>> when the action is not split
SplitDigits(a) ==
  IF IsDtmf(a)
    THEN IF IsMultiDigit(a) THEN a ELSE <<>>
    ELSE IF Len(DigitMatch(a)) > 1 THEN DigitMatch(a) ELSE <<>>

\* the input of the first sendDtmf of the step
FirstInput(a) ==
  IF SplitDigits(a) # <<>> THEN CharAt0(SplitDigits(a))
  ELSE IF IsDtmf(a) THEN a
  ELSE IF DigitMatch(a) # <<>> THEN DigitMatch(a)
  ELSE CharAt0(a)

\* mutant: the additional call is made whatever the response was
NeedsRecoveryAlways(text) == TRUE

\* the dispatch-level blank check on the response to the remaining digits
NeedsRecovery(text) == Trim(text) = <<>>

\* mutant: the driver-level check forgets to look at the action
NeedsDriverContinueAnyAction(prompt, a) == Trim(prompt) = <<>>

\* the driver-level blank check after the standard wait
NeedsDriverContinue(prompt, a) == Trim(prompt) = <<>> /\ IsMultiDigit(a)

\* the step limit of the navigation loop
MaxSteps == 20

\* mutant: the safety check is missing
StepLimitNever(step) == FALSE

StepLimitReached(step) == step >= MaxSteps


\* actions the AI recommends in the driver runs
Actions ==
  { <<"1">>, <<"1", "2">>, <<"1", "2", "3", "4">>, <<"*">>, <<"#">>, <<>>,
    <<"9", "0", "0", "9", "4", "0", "0", "#">>,
    <<"g", "o", " ", "1", "2">>, <<"g", "o", " ", "7">>,
    HangUpText, <<"H", "a", "n", "g", " ", "U", "p">> }

\* answers of the AI: one line holding the action, or several lines of which
\* the last non-blank one holds it
AiAnswers ==
  { <<a>> : a \in Actions }
    \cup { << <<"o", "k">>, <<>>, <<" ", "1", "2", " ">>, <<" ">> >> }

----------------------------------------------------------------------------
(* IvrIntegration.runAutomatedNavigation *)

NoResult == [returned |-> FALSE, success |-> FALSE, failed |-> FALSE, steps |-> 0,
             history |-> <<>>]

\* one request leg of the current step: the tester method, its input, whether
\* the request succeeded, whether the prompt it returned was blank, and whether
\* it was made by the dispatch of the action or by the driver-level blank check
Leg(op, digits, ok, r, by) ==
  [op |-> op, digits |-> digits, ok |-> ok,
   blank |-> ok /\ Trim(extractTextFromResponse(r)) = <<>>, by |-> by]

\* a history entry: its step number and whether it records the end of the call
Entry(step, ended) == [step |-> step, callEnded |-> ended]

\* mutant: the exception is swallowed and the loop goes on
ThrowSwallowed ==
  /\ pc' = "loop"
  /\ UNCHANGED <<response, currentPrompt, remainingDigits, testCompleted, history,
                 result>>

\* an exception reached the catch block of runAutomatedNavigation
Throw ==
  /\ pc' = "catch"
  /\ UNCHANGED <<response, currentPrompt, remainingDigits, testCompleted, history,
                 result>>

\* mutant: a prompt that is still blank after the driver-level continue is
\* checked again
FinishStepRecheck ==
  IF pc = "driverContinue" /\ Trim(currentPrompt') = <<>> /\ IsMultiDigit(action)
    THEN pc' = "driverContinue" /\ UNCHANGED history
    ELSE /\ history' = Append(history, Entry(currentStep, FALSE))
         /\ pc' = IF StepLimitReached(currentStep) THEN "stepLimit" ELSE "loop"

\* lines 414-445 once the prompt of the step is final: record the step and
\* check the step limit
FinishStep ==
  /\ history' = Append(history, Entry(currentStep, FALSE))
  /\ pc' = IF StepLimitReached(currentStep) THEN "stepLimit" ELSE "loop"

\* lines 414-434 after the dispatch returned response r
AfterDispatch(r) ==
  /\ response' = r
  /\ currentPrompt' = extractTextFromResponse(r)
  /\ IF NeedsDriverContinue(extractTextFromResponse(r), action)
       THEN pc' = "driverContinue" /\ UNCHANGED history
       ELSE FinishStep

StartSession ==
  /\ pc = "start"
  /\ \/ /\ sessionId' = "session"
        /\ pc' = "startCall"
        /\ UNCHANGED <<response, currentPrompt, remainingDigits, testCompleted,
                       history, result>>
     \/ Throw /\ UNCHANGED sessionId
  /\ UNCHANGED apiVars
  /\ UNCHANGED flowVars
  /\ UNCHANGED <<trackers, call, ops, sid, callActive, lastResponse, action,
                 currentStep, legs, endCalls,
                 endSessions>>

StartCall ==
  /\ pc = "startCall"
  /\ sid' = "sid"
  /\ \/ \E r \in EndpointResponses :
          /\ Offered(r)
          /\ Received(r)
          /\ callActive' = TRUE
          /\ currentPrompt' = extractTextFromResponse(r)
          /\ testCompleted' = FALSE
          /\ currentStep' = 0
          /\ pc' = "loop"
          /\ UNCHANGED <<response, remainingDigits, history, result>>
     \/ Throw /\ Failed /\ UNCHANGED <<callActive, currentStep>>
  /\ UNCHANGED apiVars
  /\ UNCHANGED flowVars
  /\ UNCHANGED <<ops, sessionId, action, legs, endCalls,
                 endSessions>>

\* askAmazonQ posts the current prompt as the message of the session; the
\* session API answers a post without a message with status 400, which axios
\* raises as an error
AskAmazonQ ==
  /\ pc = "loop"
  /\ ~testCompleted
  /\ currentStep' = currentStep + 1
  /\ legs' = <<>>
  /\ \/ \E answer \in AiAnswers :
          /\ ~NoMessage(currentPrompt)
          /\ action' = extractAction(answer)
          /\ pc' = IF IsHangUp(extractAction(answer)) THEN "hangUp" ELSE "dispatch"
          /\ UNCHANGED <<response, currentPrompt, remainingDigits, testCompleted,
                         history, result>>
     \/ Throw /\ UNCHANGED action
  /\ UNCHANGED apiVars
  /\ UNCHANGED flowVars
  /\ UNCHANGED <<trackers, call, ops, sessionId, sid, callActive, lastResponse,
                 endCalls,
                 endSessions>>

HangUp ==
  /\ pc = "hangUp"
  /\ endCalls' = endCalls + 1
  /\ UNCHANGED endSessions
  /\ \/ /\ callActive' = FALSE
        /\ testCompleted' = TRUE
        /\ history' = Append(history, Entry(currentStep, TRUE))
        /\ pc' = "summary"
        /\ UNCHANGED <<response, currentPrompt, remainingDigits, result>>
     \/ Throw /\ UNCHANGED callActive
  /\ UNCHANGED apiVars
  /\ UNCHANGED flowVars
  /\ UNCHANGED <<trackers, call, ops, sessionId, sid, lastResponse, action,
                 currentStep, legs>>

\* the first sendDtmf of the step: the whole input, or the first digit of a
\* split input
DispatchFirst ==
  /\ pc = "dispatch"
  /\ callActive /\ sid # Null
  /\ LET input == FirstInput(action)
         split == SplitDigits(action) # <<>>
     IN \/ \E r \in EndpointResponses :
             /\ Offered(r)
             /\ Received(r)
             /\ legs' = Append(legs, Leg("sendDtmf", input, TRUE, r, "dispatch"))
             /\ IF split
                  THEN /\ response' = r
                       /\ remainingDigits' = Substring1(SplitDigits(action))
                       /\ pc' = "secondLeg"
                       /\ UNCHANGED <<currentPrompt, history>>
                  ELSE AfterDispatch(r) /\ UNCHANGED remainingDigits
             /\ UNCHANGED <<testCompleted, result>>
        \/ /\ Throw /\ Failed
           /\ legs' = Append(legs, Leg("sendDtmf", input, FALSE, NullResponse, "dispatch"))
  /\ UNCHANGED apiVars
  /\ UNCHANGED flowVars
  /\ UNCHANGED <<ops, sessionId, sid, callActive, action, currentStep, endCalls,
                 endSessions>>

\* the second sendDtmf of a split input: the remaining digits
DispatchSecond ==
  /\ pc = "secondLeg"
  /\ callActive /\ sid # Null
  /\ \/ \E r \in EndpointResponses :
          /\ Offered(r)
          /\ Received(r)
          /\ legs' = Append(legs, Leg("sendDtmf", remainingDigits, TRUE, r, "dispatch"))
          /\ IF NeedsRecovery(extractTextFromResponse(r))
               THEN /\ response' = r
                    /\ pc' = "recover"
                    /\ UNCHANGED <<currentPrompt, history>>
               ELSE AfterDispatch(r)
          /\ UNCHANGED <<remainingDigits, testCompleted, result>>
     \/ /\ Throw /\ Failed
        /\ legs' = Append(legs, Leg("sendDtmf", remainingDigits, FALSE, NullResponse,
                                    "dispatch"))
  /\ UNCHANGED apiVars
  /\ UNCHANGED flowVars
  /\ UNCHANGED <<ops, sessionId, sid, callActive, action, currentStep, endCalls,
                 endSessions>>

\* the additional call with no input after a blank second leg
DispatchRecover ==
  /\ pc = "recover"
  /\ callActive /\ sid # Null
  /\ \/ \E r \in EndpointResponses :
          /\ Offered(r)
          /\ Received(r)
          /\ legs' = Append(legs, Leg("continueCall", <<>>, TRUE, r, "dispatch"))
          /\ AfterDispatch(r)
          /\ UNCHANGED <<remainingDigits, testCompleted, result>>
     \/ /\ Throw /\ Failed
        /\ legs' = Append(legs, Leg("continueCall", <<>>, FALSE, NullResponse, "dispatch"))
  /\ UNCHANGED apiVars
  /\ UNCHANGED flowVars
  /\ UNCHANGED <<ops, sessionId, sid, callActive, action, currentStep, endCalls,
                 endSessions>>

\* the continue call of the driver-level blank check
DriverContinue ==
  /\ pc = "driverContinue"
  /\ callActive /\ sid # Null
  /\ \/ \E r \in EndpointResponses :
          /\ Offered(r)
          /\ Received(r)
          /\ legs' = Append(legs, Leg("continueCall", <<>>, TRUE, r, "driver"))
          /\ response' = r
          /\ currentPrompt' = extractTextFromResponse(r)
          /\ FinishStep
          /\ UNCHANGED <<remainingDigits, testCompleted, result>>
     \/ /\ Throw /\ Failed
        /\ legs' = Append(legs, Leg("continueCall", <<>>, FALSE, NullResponse, "driver"))
  /\ UNCHANGED apiVars
  /\ UNCHANGED flowVars
  /\ UNCHANGED <<ops, sessionId, sid, callActive, action, currentStep, endCalls,
                 endSessions>>

\* "Maximum steps reached - ending test"
StepLimit ==
  /\ pc = "stepLimit"
  /\ endCalls' = endCalls + 1
  /\ UNCHANGED endSessions
  /\ \/ /\ callActive' = FALSE
        /\ testCompleted' = TRUE
        /\ pc' = "summary"
        /\ UNCHANGED <<response, currentPrompt, remainingDigits, history, result>>
     \/ Throw /\ UNCHANGED callActive
  /\ UNCHANGED apiVars
  /\ UNCHANGED flowVars
  /\ UNCHANGED <<trackers, call, ops, sessionId, sid, lastResponse, action,
                 currentStep, legs>>

\* endSession: nothing without a session id, else a request to delete the
\* session, after which the session id is null; an error of the request is
\* only logged
EndSession ==
  IF sessionId = Null
    THEN UNCHANGED <<sessionId, endSessions>>
    ELSE /\ endSessions' = endSessions + 1
         /\ sessionId' \in {Null, sessionId}

\* endSession (its own errors are swallowed) and the success result
Summary ==
  /\ pc = "summary"
  /\ EndSession
  /\ result' = [returned |-> TRUE, success |-> TRUE, failed |-> FALSE,
                steps |-> currentStep, history |-> history]
  /\ pc' = "done"
  /\ UNCHANGED apiVars
  /\ UNCHANGED flowVars
  /\ UNCHANGED <<trackers, call, ops, sid, callActive, lastResponse, response,
                 currentPrompt, action, remainingDigits, currentStep, testCompleted,
                 history, legs, endCalls>>

\* mutant: the catch block returns the failure result without cleaning up
CatchWithoutCleanup ==
  /\ pc = "catch"
  /\ result' = [returned |-> TRUE, success |-> FALSE, failed |-> TRUE,
                steps |-> currentStep, history |-> history]
  /\ pc' = "done"
  /\ UNCHANGED apiVars
  /\ UNCHANGED flowVars
  /\ UNCHANGED <<trackers, call, ops, sid, lastResponse, response, currentPrompt,
                 action, remainingDigits, currentStep, testCompleted, history, legs,
                 endCalls, callActive, sessionId, endSessions>>

\* the catch block: end the call if it is active, end the session (errors of
\* both are swallowed) and return the failure result
Catch ==
  /\ pc = "catch"
  /\ IF callActive
       THEN endCalls' = endCalls + 1 /\ callActive' \in {FALSE, TRUE}
       ELSE UNCHANGED <<endCalls, callActive>>
  /\ EndSession
  /\ result' = [returned |-> TRUE, success |-> FALSE, failed |-> TRUE,
                steps |-> currentStep, history |-> history]
  /\ pc' = "done"
  /\ UNCHANGED apiVars
  /\ UNCHANGED flowVars
  /\ UNCHANGED <<trackers, call, ops, sid, lastResponse, response, currentPrompt,
                 action, remainingDigits, currentStep, testCompleted, history, legs>>

----------------------------------------------------------------------------
(* IvrFlowTester.runAllTests: the three scripted flows on one tester *)

\* the flows in the order runAllTests runs them
Flows == <<"refill_prescription", "check_status", "pharmacy_hours">>

\* config.testRxNumber
TestRxNumber == <<"9", "0", "0", "9", "4", "0", "0">>

\* the main-menu key a flow presses
MenuKey(flow) ==
  CASE flow = "refill_prescription" -> <<"1">>
    [] flow = "check_status" -> <<"2">>
    [] flow = "pharmacy_hours" -> <<"4">>

\* what a flow enters after the menu key: the prescription number, or the key
\* of the weekly hours
FlowInput(flow) ==
  IF flow = "pharmacy_hours" THEN <<"1">> ELSE TestRxNumber

\* what the endpoint answers in the scripted flows
FlowResponses == EndpointResponses \cup {Xml(<<>>, ConfirmPrompt)}

\* "Check if we need to confirm"
NeedsConfirm(text) ==
  \/ Includes(ToLower(text), <<"confirm">>)
  \/ Includes(ToLower(text), <<"is", "this", "correct">>)

\* a request leg of a flow: as Leg, with the input the flow is entering
FlowLeg(op, digits, ok, r, input) ==
  [op |-> op, digits |-> digits, ok |-> ok,
   blank |-> ok /\ Trim(extractTextFromResponse(r)) = <<>>, by |-> "flow",
   input |-> input]

\* what a flow neither reads nor writes
outsideTester == <<ops, sessionId, endSessions, response, currentPrompt, action, remainingDigits,
                   currentStep, testCompleted, history, result>>

\* sendDtmf(digits) or continueCall() inside the try block of a flow: on
\* success go on at after[r], on an exception go to the catch block
FlowRequest(op, digits, input, after) ==
  /\ callActive /\ sid # Null
  /\ \/ \E r \in FlowResponses :
          /\ Offered(r)
          /\ Received(r)
          /\ legs' = Append(legs, FlowLeg(op, digits, TRUE, r, input))
          /\ pc' = after[r]
     \/ /\ Failed
        /\ legs' = Append(legs, FlowLeg(op, digits, FALSE, NullResponse, input))
        /\ pc' = "flowCatch"
  /\ UNCHANGED <<sid, callActive, endCalls, outsideTester, flowVars>>
  /\ UNCHANGED apiVars

\* runAllTests: the next flow begins, or all three are done
RunNextTest ==
  /\ pc \in {"runAllTests", "flowNext"}
  /\ LET n == Cardinality(DOMAIN testResults) IN
     IF n < Len(Flows)
       THEN currentFlow' = Flows[n + 1] /\ pc' = "flowStartCall"
       ELSE UNCHANGED currentFlow /\ pc' = "flowsDone"
  /\ UNCHANGED <<trackers, call, sid, callActive, lastResponse, legs, endCalls,
                 testResults, started, outsideTester>>
  /\ UNCHANGED apiVars

\* startCall of a flow
FlowStartCall ==
  /\ pc = "flowStartCall"
  /\ sid' = "sid"
  /\ started' = [calls |-> started.calls + 1, before |-> trackers[TesterTracker]]
  /\ legs' = <<>>
  /\ \/ \E r \in FlowResponses :
          /\ Offered(r)
          /\ Received(r)
          /\ callActive' = TRUE
          /\ pc' = "flowToMenu"
     \/ Failed /\ pc' = "flowCatch" /\ UNCHANGED callActive
  /\ UNCHANGED <<endCalls, currentFlow, testResults, outsideTester>>
  /\ UNCHANGED apiVars

\* "Continue to main menu"
FlowToMenu ==
  /\ pc = "flowToMenu"
  /\ FlowRequest("continueCall", <<>>, <<>>, [r \in FlowResponses |-> "flowChoose"])

\* the menu key of the flow
FlowChoose ==
  /\ pc = "flowChoose"
  /\ FlowRequest("sendDtmf", MenuKey(currentFlow), MenuKey(currentFlow),
                 [r \in FlowResponses |-> "flowEnter"])

\* sendDtmf(testRx), or sendDtmf('1') in the pharmacy hours flow
FlowEnter ==
  /\ pc = "flowEnter"
  /\ FlowRequest("sendDtmf", FlowInput(currentFlow), FlowInput(currentFlow),
                 [r \in FlowResponses |->
                    IF currentFlow # "pharmacy_hours"
                         /\ NeedsConfirm(extractTextFromResponse(r))
                      THEN "flowConfirm"
                      ELSE "flowFinish"])

\* "Press 1 to confirm"
FlowConfirm ==
  /\ pc = "flowConfirm"
  /\ FlowRequest("sendDtmf", <<"1">>, <<"1">>, [r \in FlowResponses |-> "flowFinish"])

\* "Continue with any additional steps"
FlowFinish ==
  /\ pc = "flowFinish"
  /\ FlowRequest("continueCall", <<>>, <<>>, [r \in FlowResponses |-> "flowEndCall"])

\* endCall at the end of the try block, and the success result
FlowEndCall ==
  /\ pc = "flowEndCall"
  /\ sid # Null
  /\ endCalls' = endCalls + 1
  /\ \/ /\ callActive' = FALSE
        /\ testResults' = (currentFlow :> TRUE) @@ testResults
        /\ pc' = "flowNext"
     \/ pc' = "flowCatch" /\ UNCHANGED <<callActive, testResults>>
  /\ UNCHANGED <<trackers, call, sid, lastResponse, legs, currentFlow, started,
                 outsideTester>>
  /\ UNCHANGED apiVars

\* the catch block of a flow: end the call if it is still active (an error of
\* endCall is only logged) and save the failure result
FlowCatch ==
  /\ pc = "flowCatch"
  /\ IF callActive
       THEN endCalls' = endCalls + 1 /\ callActive' \in {FALSE, TRUE}
       ELSE UNCHANGED <<endCalls, callActive>>
  /\ testResults' = (currentFlow :> FALSE) @@ testResults
  /\ pc' = "flowNext"
  /\ UNCHANGED <<trackers, call, sid, lastResponse, legs, currentFlow, started,
                 outsideTester>>
  /\ UNCHANGED apiVars

----------------------------------------------------------------------------
(* Specifications *)

\* the objects as constructed: two trackers, one tester, one integration
Constructed ==
  /\ trackers = [i \in Instances |-> NewTracker]
  /\ call = NoCall
  /\ ops = 0
  /\ sessionId = Null
  /\ sid = Null
  /\ callActive = FALSE
  /\ lastResponse = NullResponse
  /\ response = NullResponse
  /\ currentPrompt = <<>>
  /\ action = <<>>
  /\ remainingDigits = <<>>
  /\ currentStep = 0
  /\ testCompleted = FALSE
  /\ history = <<>>
  /\ result = NoResult
  /\ legs = <<>>
  /\ endCalls = 0
  /\ endSessions = 0
  /\ sessions = <<>>
  /\ now = 0
  /\ nextCleanup = SESSION_CHECK_INTERVAL
  /\ created = 0
  /\ timedOut = {}
  /\ event = NoEvent
  /\ currentFlow = Null
  /\ testResults = << >>
  /\ started = NoStart

\* a run of runAutomatedNavigation
Init == Constructed /\ pc = "start"

Next ==
  \/ StartSession
  \/ StartCall
  \/ AskAmazonQ
  \/ HangUp
  \/ DispatchFirst
  \/ DispatchSecond
  \/ DispatchRecover
  \/ DriverContinue
  \/ StepLimit
  \/ Summary
  \/ Catch

Spec == Init /\ [][Next]_vars

\* every pending request (to the AI session or to the call endpoint) eventually
\* returns or fails, so the driver always takes its next step
FairSpec == Spec /\ WF_vars(Next)

\* the trackers driven directly by a caller
TrackerInit == Constructed /\ pc = "idle"

TrackerNext ==
  \/ \E i \in Instances, text \in TrackerTexts : UpdateStateOp(i, text)
  \/ \E i \in Instances, state \in RuntimeStates, pattern \in RuntimePatterns :
       AddStatePatternOp(i, state, pattern)
  \/ \E i \in Instances : ResetOp(i)

TrackerSpec == TrackerInit /\ [][TrackerNext]_vars

\* trackers that are never reset
TallyNext ==
  \/ \E i \in Instances, text \in TrackerTexts : UpdateStateOp(i, text)
  \/ \E i \in Instances, state \in RuntimeStates, pattern \in RuntimePatterns :
       AddStatePatternOp(i, state, pattern)

TallySpec == TrackerInit /\ [][TallyNext]_vars

\* identifyState applied to the texts of ClassifyTexts by a tracker that
\* updateState has brought into some state
ClassifyNext ==
  \/ \E text \in ClassifyTexts : IdentifyStateOp(TesterTracker, text)
  \/ \E text \in SeedTexts :
       /\ Len(trackers[TesterTracker].stateHistory) < MaxSeeds
       /\ UpdateStateOp(TesterTracker, text)

ClassifySpec == TrackerInit /\ [][ClassifyNext]_vars

\* getNextAction asked in both modes of a tracker that the first prompt of a
\* call has brought into a built-in or a run-time registered state
PolicyNext ==
  \/ \E mode \in Modes, explorationDepth \in 0..MaxDepth :
       GetNextActionOp(TesterTracker, mode, explorationDepth)
  \/ \E text \in PolicyTexts :
       /\ trackers[TesterTracker].stateHistory = <<>>
       /\ UpdateStateOp(TesterTracker, text)
  \/ \E state \in RuntimeStates, pattern \in RuntimePatterns :
       /\ trackers[TesterTracker].discoveredPatterns = <<>>
       /\ AddStatePatternOp(TesterTracker, state, pattern)
  \/ \E actionName \in ActionNames : GetInputOp(TesterTracker, actionName)

PolicySpec == TrackerInit /\ [][PolicyNext]_vars

\* the session API server serving requests between cleanup runs
ApiInit == Constructed /\ pc = "serving"

ApiNext ==
  \/ CreateSession
  \/ \E id \in SessionIds : GetSession(id)
  \/ \E id \in SessionIds : GetMessages(id)
  \/ \E id \in SessionIds, message \in Messages, ok \in BOOLEAN, took \in {0, Tick} :
       PostMessage(id, message, ok, took)
  \/ \E id \in SessionIds : DeleteSession(id)
  \/ Cleanup
  \/ Wait

ApiSpec == ApiInit /\ [][ApiNext]_vars

\* the session API serving the conversation of one client
ConversationNext ==
  \/ CreateSession
  \/ \E id \in SessionIds, ok \in BOOLEAN, took \in {0, Tick} : PostNext(id, ok, took)
  \/ \E id \in SessionIds : GetMessages(id)

ConversationSpec == ApiInit /\ [][ConversationNext]_vars

\* a tracker whose registry is filled at run time, in any order, and which
\* classifies prompts in between
RegistryNext ==
  \/ \E state \in RegistryStates, pattern \in RegistryPatterns :
       AddStatePatternOp(TesterTracker, state, pattern)
  \/ \E text \in RegistryTexts : IdentifyStateOp(TesterTracker, text)
  \/ \E text \in {RefillPrompt, BillingPrompt} : UpdateStateOp(TesterTracker, text)
  \/ ResetOp(TesterTracker)
  \/ GetNextActionOp(TesterTracker, "normal", 0)

RegistrySpec == TrackerInit /\ [][RegistryNext]_vars

\* a call of a method of the tester by a caller, as logged in `legs`: the
\* request was answered ("ok"), the request failed ("failed"), or the method
\* raised the error `error` without making a request ("refused")
TesterCall(op, outcome, error) == [op |-> op, outcome |-> outcome, error |-> error]

\* what a method of the tester neither reads nor writes
outsideCall == <<call, sessionId, endSessions, response, currentPrompt, action, remainingDigits,
                 currentStep, testCompleted, history, result, pc>>

\* startCall() called by a caller of the tester
TesterStartCall ==
  /\ ops < MaxCalls
  /\ ops' = ops + 1
  /\ sid' = "sid"
  /\ \/ \E r \in EndpointResponses :
          /\ Offered(r)
          /\ lastResponse' = r
          /\ trackers' = [trackers EXCEPT ![TesterTracker] =
                            updateState(@, extractTextFromResponse(r)).t]
          /\ callActive' = TRUE
          /\ legs' = Append(legs, TesterCall("startCall", "ok", Null))
     \/ /\ UNCHANGED <<lastResponse, trackers, callActive>>
        /\ legs' = Append(legs, TesterCall("startCall", "failed", Null))
  /\ UNCHANGED <<endCalls, outsideCall, flowVars>>
  /\ UNCHANGED apiVars

\* mutant: the guard looks at the SID only
NoActiveCallBySid == sid = Null

\* the guard of sendDtmf and continueCall
NoActiveCall == ~callActive \/ sid = Null

\* sendDtmf(digits) or continueCall() called by a caller of the tester
TesterRequest(op) ==
  /\ ops < MaxCalls
  /\ ops' = ops + 1
  /\ IF NoActiveCall
       THEN /\ UNCHANGED <<lastResponse, trackers>>
            /\ legs' = Append(legs, TesterCall(op, "refused", "No active call"))
       ELSE \/ \E r \in EndpointResponses :
                 /\ Offered(r)
                 /\ lastResponse' = r
                 /\ trackers' = [trackers EXCEPT ![TesterTracker] =
                                   updateState(@, extractTextFromResponse(r)).t]
                 /\ legs' = Append(legs, TesterCall(op, "ok", Null))
            \/ /\ UNCHANGED <<lastResponse, trackers>>
               /\ legs' = Append(legs, TesterCall(op, "failed", Null))
  /\ UNCHANGED <<sid, callActive, endCalls, outsideCall, flowVars>>
  /\ UNCHANGED apiVars

\* endCall() called by a caller of the tester
TesterEndCall ==
  /\ ops < MaxCalls
  /\ ops' = ops + 1
  /\ IF sid = Null
       THEN /\ UNCHANGED <<callActive, endCalls>>
            /\ legs' = Append(legs, TesterCall("endCall", "refused", "No SID"))
       ELSE /\ endCalls' = endCalls + 1
            /\ \/ /\ callActive' = FALSE
                  /\ legs' = Append(legs, TesterCall("endCall", "ok", Null))
               \/ /\ UNCHANGED callActive
                  /\ legs' = Append(legs, TesterCall("endCall", "failed", Null))
  /\ UNCHANGED <<sid, lastResponse, trackers, outsideCall, flowVars>>
  /\ UNCHANGED apiVars

\* a newly constructed IvrFlowTester whose methods a caller calls in any order
TesterInit == Constructed /\ pc = "tester"

TesterNext ==
  \/ TesterStartCall
  \/ TesterRequest("sendDtmf")
  \/ TesterRequest("continueCall")
  \/ TesterEndCall

TesterSpec == TesterInit /\ [][TesterNext]_vars

\* a run of runAllTests on a newly constructed IvrFlowTester
FlowInit == Constructed /\ pc = "runAllTests"

FlowNext ==
  \/ RunNextTest
  \/ FlowStartCall
  \/ FlowToMenu
  \/ FlowChoose
  \/ FlowEnter
  \/ FlowConfirm
  \/ FlowFinish
  \/ FlowEndCall
  \/ FlowCatch

FlowSpec == FlowInit /\ [][FlowNext]_vars

----------------------------------------------------------------------------
(* Properties of the driver runs *)

DispatchLegs == SelectSeq(legs, LAMBDA l : l.by = "dispatch")
DriverLegs   == SelectSeq(legs, LAMBDA l : l.by = "driver")
DtmfLegs     == SelectSeq(legs, LAMBDA l : l.op = "sendDtmf")
ContinueLegs == SelectSeq(legs, LAMBDA l : l.op = "continueCall")

\* the current step ran to its end: its entry is in the history
StepDone ==
  /\ currentStep >= 1
  /\ Len(history) = currentStep
  /\ ~history[currentStep].callEnded

\* the dispatch of the current step returned its prompt to the driver
DispatchReturned == StepDone \/ pc = "driverContinue" \/ DriverLegs # <<>>

\* the action is made of DTMF characters only: digits, '*', '#'
IsDtmfString(a) == \A i \in 1..Len(a) : a[i] \in Digits \cup {"*", "#"}

\* C1 (as claimed): every action of two or more DTMF characters is sent as a
\* first leg with its first character and then a second sendDtmf leg with
\* exactly the remaining characters, so that both inputs together are the
\* action.
C1_SplitsEveryMultiCharInput ==
  (Len(action) >= 2 /\ IsDtmfString(action) /\ legs # <<>>) =>
    /\ legs[1].digits = CharAt0(action)
    /\ legs[1].ok => \/ pc = "secondLeg"
                     \/ /\ Len(legs) >= 2
                        /\ legs[2].op = "sendDtmf"
                        /\ legs[2].digits = Substring1(action)
                        /\ legs[1].digits \o legs[2].digits = action

\* C2: for an action of two or more digits the legs of the step are, in this
\* order, sendDtmf(first digit), sendDtmf(remaining digits) and then only
\* continue legs, each leg issued after the one before it returned; a step
\* that ran to its end has issued exactly two sendDtmf legs.
C2_MultiDigitTwoLegs ==
  IsMultiDigit(action) =>
    /\ \A k \in 1..Len(legs) :
         /\ k = 1 => legs[k].op = "sendDtmf" /\ legs[k].digits = <<action[1]>>
         /\ k = 2 => legs[k].op = "sendDtmf" /\ legs[k].digits = Substring1(action)
         /\ k >= 3 => legs[k].op = "continueCall" /\ legs[k].digits = <<>>
         /\ k < Len(legs) => legs[k].ok
    /\ StepDone => Len(DtmfLegs) = 2 /\ legs[1].digits \o legs[2].digits = action

C2_Witness ==
  /\ IsMultiDigit(action) /\ Len(action) > 2
  /\ StepDone
  /\ Len(legs) = 3 /\ legs[3].op = "continueCall"

\* C3: inside a dispatch the blank-response recovery happens at most once: a
\* continue leg follows the second leg exactly when the second leg's prompt is
\* blank, no leg of the dispatch follows that continue leg, and a blank prompt
\* of the continue leg is what the dispatch returns.
C3_RecoveryAtMostOnce ==
  LET d == DispatchLegs IN
  /\ Len(d) <= 3
  /\ Len(d) >= 2 =>
       /\ Len(d) = 3 => d[3].op = "continueCall" /\ d[2].ok /\ d[2].blank
       /\ (DispatchReturned /\ d[2].ok) => (Len(d) = 3 <=> d[2].blank)
  /\ (DispatchReturned /\ DriverLegs = <<>> /\ d[Len(d)].ok) =>
       (Trim(currentPrompt) = <<>> <=> d[Len(d)].blank)

C3_Witness ==
  /\ Len(DispatchLegs) = 3
  /\ DispatchLegs[2].blank /\ DispatchLegs[3].blank
  /\ StepDone /\ DriverLegs = <<>>
  /\ Trim(currentPrompt) = <<>>

\* C4: for an action of at most one character the step performs exactly one
\* request leg, a sendDtmf carrying that input, and no continue leg, whether
\* the prompt returned is blank or not.
C4_SingleLeg ==
  (Len(action) <= 1 /\ currentStep >= 1) =>
    /\ Len(legs) <= 1
    /\ legs # <<>> => legs[1].op = "sendDtmf" /\ legs[1].digits = action
    /\ StepDone => Len(legs) = 1
    /\ pc \notin {"secondLeg", "recover", "driverContinue"}

C4_Witness ==
  /\ action = <<>>
  /\ StepDone
  /\ Len(legs) = 1 /\ legs[1].blank
  /\ pc = "loop"

\* C5 (as claimed): whenever the dispatch of a multi-character action (two or
\* more DTMF characters) returned a blank prompt, the driver performs exactly
\* one more continue leg before the step ends.
C5_DriverContinueForMultiChar ==
  LET d == DispatchLegs IN
  (StepDone /\ Len(action) >= 2 /\ IsDtmfString(action) /\ d[Len(d)].blank) =>
    Len(DriverLegs) = 1

\* C6: a failed request leg is the last leg of the run: the driver goes to its
\* catch block, starts no further step, and returns a failure result holding
\* the history entries of the steps completed before.
C6_LegFailureEndsRun ==
  (\E k \in 1..Len(legs) : ~legs[k].ok) =>
    /\ ~legs[Len(legs)].ok
    /\ \A k \in 1..(Len(legs) - 1) : legs[k].ok
    /\ pc \in {"catch", "done"}
    /\ pc = "done" =>
         /\ result.returned /\ ~result.success /\ result.failed
         /\ result.steps = currentStep
         /\ Len(result.history) = currentStep - 1
         /\ \A j \in 1..Len(result.history) : result.history[j] = Entry(j, FALSE)

C6_Witness ==
  /\ pc = "done"
  /\ currentStep = 3
  /\ Len(legs) = 2 /\ ~legs[2].ok
  /\ result.failed /\ Len(result.history) = 2

\* C7 (as claimed): no more than MaxSteps steps are executed, and a success
\* result is returned only when the loop was ended by the termination action.
C7_SuccessOnlyAfterHangUp ==
  /\ currentStep <= MaxSteps
  /\ (result.returned /\ result.success) =>
       /\ history # <<>>
       /\ history[Len(history)].callEnded

\* C8: when the action of a step is "hang up" in any letter case, no sendDtmf
\* or continueCall leg is made in that step and no later step starts; the
\* driver requests the end of the call and, that request having succeeded, the
\* call is inactive, the step is the last history entry and the result is a
\* success.
C8_HangUpEndsLoop ==
  (currentStep >= 1 /\ ToLower(action) = HangUpText) =>
    /\ legs = <<>>
    /\ pc \in {"hangUp", "summary", "catch", "done"}
    /\ pc # "hangUp" => endCalls >= 1
    /\ pc = "catch" => callActive /\ ~testCompleted
    /\ (pc = "summary" \/ (pc = "done" /\ result.success)) =>
         /\ ~callActive /\ testCompleted
         /\ endCalls = 1
         /\ Len(history) = currentStep
         /\ history[currentStep] = Entry(currentStep, TRUE)
    /\ (pc = "done" /\ result.success) => result.history = history

C8_Witness ==
  /\ action = <<"H", "a", "n", "g", " ", "U", "p">>
  /\ pc = "done" /\ result.success
  /\ currentStep = 2
  /\ Len(result.history) = 2 /\ result.history[2].callEnded

\* C9: every run of the driver terminates, returning its result, after at
\* most MaxSteps steps of at most four request legs each.
C9_DriverTerminates ==
  /\ <>(pc = "done" /\ result.returned)
  /\ [](currentStep <= MaxSteps /\ Len(legs) <= 4)

C9_Witness ==
  /\ pc = "done" /\ result.returned
  /\ currentStep = MaxSteps
  /\ Len(result.history) = MaxSteps
  /\ ~history[MaxSteps].callEnded

\* C21: a step makes at most four request legs; for an action of two or more
\* digits at most two of them are continue legs, at most one made by the
\* dispatch and at most one by the driver after the standard wait, and every
\* continue leg directly follows a leg that succeeded with a blank prompt.
C21_BoundedRetryPerStep ==
  /\ Len(legs) <= 4
  /\ IsMultiDigit(action) =>
       /\ Len(ContinueLegs) <= 2
       /\ Len(SelectSeq(DispatchLegs, LAMBDA l : l.op = "continueCall")) <= 1
       /\ Len(DriverLegs) <= 1
       /\ \A k \in 1..Len(legs) :
            legs[k].op = "continueCall" =>
              k >= 3 /\ legs[k - 1].ok /\ legs[k - 1].blank

C21_Witness ==
  /\ IsMultiDigit(action)
  /\ StepDone
  /\ Len(legs) = 4 /\ Len(ContinueLegs) = 2
  /\ legs[2].blank /\ legs[3].blank /\ legs[4].blank
  /\ Trim(currentPrompt) = <<>>

\* C23: a step that ended with a blank prompt does not by itself end the run
\* as a failure: the driver goes on to ask for the next action, and that
\* request can be answered, so that the next step is dispatched or the call
\* is hung up.
C23_BlankPromptNotFatal ==
  (pc = "loop" /\ StepDone /\ Trim(currentPrompt) = <<>>) =>
    ENABLED (AskAmazonQ /\ pc' \in {"dispatch", "hangUp"})

----------------------------------------------------------------------------
(* Properties of the trackers *)

\* C10: an updateState whose prompt is classified as the current state leaves
\* currentState, previousState, stateHistory and all tallies as they were and
\* returns the current state.
C10_SelfLoopRecordsNothing ==
  (call.op = "updateState"
     /\ identifyState(call.before, call.text) = call.before.currentState) =>
    LET t == trackers[call.inst] IN
    /\ t.currentState = call.before.currentState
    /\ t.previousState = call.before.previousState
    /\ t.stateHistory = call.before.stateHistory
    /\ t.stateTransitions = call.before.stateTransitions
    /\ call.ret = call.before.currentState
    /\ ~call.threw

C10_Witness ==
  /\ call.op = "updateState"
  /\ call.text = WeeklyPrompt
  /\ call.before.currentState = WEEKLY_HOURS
  /\ call.before.stateHistory = <<CONFIRM_RX, WEEKLY_HOURS>>
  /\ trackers[call.inst].stateHistory = call.before.stateHistory
  /\ call.ret = WEEKLY_HOURS

\* C11: an updateState whose prompt is classified as a state that differs from
\* the current state and is not one of its declared successors (the current
\* state not being UNKNOWN) raises nothing and records the transition as a
\* legal one is recorded: previousState becomes the old current state,
\* currentState the new state, the new state is appended to stateHistory and
\* the tally of the pair goes up by one.
C11_IllegalTransitionNonFatal ==
  LET cur == call.before.currentState
      new == identifyState(call.before, call.text)
      t == trackers[call.inst]
  IN
  (call.op = "updateState" /\ cur # UNKNOWN /\ new # cur
     /\ new \notin STATE_TRANSITIONS(cur)) =>
    /\ ~call.threw
    /\ call.ret = new
    /\ t.currentState = new
    /\ t.previousState = cur
    /\ t.stateHistory = Append(call.before.stateHistory, new)
    /\ new \in DOMAIN t.stateTransitions[cur]
    /\ t.stateTransitions[cur][new] =
         (IF new \in DOMAIN call.before.stateTransitions[cur]
            THEN call.before.stateTransitions[cur][new] ELSE 0) + 1

\* C13: identifyState gives UNKNOWN for an empty or null prompt, and an
\* updateState with such a prompt moves a tracker whose current state is not
\* UNKNOWN into UNKNOWN.
C13_BlankPromptIsUnknown ==
  (call.op = "updateState" /\ call.text \in {<<>>, NullText}) =>
    /\ identifyState(call.before, call.text) = UNKNOWN
    /\ ~call.threw
    /\ trackers[call.inst].currentState = UNKNOWN
    /\ call.before.currentState # UNKNOWN =>
         /\ trackers[call.inst].previousState = call.before.currentState
         /\ call.ret = UNKNOWN

\* C16: every updateState, after any sequence of addStatePattern and
\* updateState calls, completes without raising and returns the tracker's new
\* current state.
C16_UpdateStateNeverRaises ==
  call.op = "updateState" =>
    /\ ~call.threw
    /\ call.ret = trackers[call.inst].currentState

\* C17: reset puts currentState back to UNKNOWN, previousState to null and
\* stateHistory to empty, and leaves the discovered patterns and the
\* discovered states as they were.
C17_ResetKeepsDiscoveries ==
  call.op = "reset" =>
    LET t == trackers[call.inst] IN
    /\ t.currentState = UNKNOWN
    /\ t.previousState = Null
    /\ t.stateHistory = <<>>
    /\ t.discoveredPatterns = call.before.discoveredPatterns
    /\ t.discoveredStates = call.before.discoveredStates

C17_Witness ==
  /\ call.op = "reset"
  /\ call.before.currentState = "billing"
  /\ call.before.stateHistory = <<WEEKLY_HOURS, "billing">>
  /\ call.before.discoveredPatterns # <<>>
  /\ trackers[call.inst].discoveredStates = {"billing", WEEKLY_HOURS}
  /\ trackers[call.inst].stateHistory = <<>>

\* C18: an operation on one tracker instance leaves every other instance
\* (current and previous state, history, tallies, discovered states and
\* pattern registry) as it was.
C18_InstancesIsolated ==
  [][\A i \in Instances : call'.inst # i => trackers'[i] = trackers[i]]_vars

C18_Witness ==
  /\ call.op = "addStatePattern" /\ call.inst = 2
  /\ trackers[2].discoveredPatterns # <<>>
  /\ trackers[1].discoveredPatterns = <<>>
  /\ trackers[1].stateHistory = <<WEEKLY_HOURS, CONFIRM_RX>>
  /\ trackers[2].stateHistory = <<>>

\* C25: after an updateState whose prompt is classified as a state that
\* differs from the current state, previousState is the old current state,
\* currentState is the new state, the history has grown by exactly the new
\* state, and the new state is among the discovered states.
C25_TransitionRecorded ==
  LET cur == call.before.currentState
      new == identifyState(call.before, call.text)
      t == trackers[call.inst]
  IN
  (call.op = "updateState" /\ new # cur) =>
    /\ t.previousState = cur
    /\ t.currentState = new
    /\ t.stateHistory = Append(call.before.stateHistory, new)
    /\ new \in t.discoveredStates

\* the count of the pair (s, n) in the tallies of tracker t, 0 when it has none
TallyOf(t, s, n) ==
  IF s \in DOMAIN t.stateTransitions /\ n \in DOMAIN t.stateTransitions[s]
    THEN t.stateTransitions[s][n]
    ELSE 0

\* the states that occur in a tracker operation of the model
SeenStates == IvrStateSet \cup RuntimeStates

\* C26: an updateState that moves the tracker from a state other than
\* UNKNOWN to a different state raises the tally of that pair by one and
\* leaves every other tally as it was; one that moves it out of UNKNOWN
\* changes no tally and is a valid transition whatever the new state.
C26_TallyAroundUnknown ==
  LET cur == call.before.currentState
      new == identifyState(call.before, call.text)
      t == trackers[call.inst]
  IN
  (call.op = "updateState" /\ new # cur) =>
    IF cur # UNKNOWN
      THEN \A s \in SeenStates, n \in SeenStates :
             TallyOf(t, s, n) =
               TallyOf(call.before, s, n) + (IF s = cur /\ n = new THEN 1 ELSE 0)
      ELSE /\ t.stateTransitions = call.before.stateTransitions
           /\ isValidTransition(call.before, new)

\* the text contains, in any letter case, a pattern declared for the k-th
\* state of the static table
HasPatternOf(k, text) ==
  \E p \in PatternsOf(k) : Includes(ToLower(text), ToLower(p))

\* C12: identifyState applied to a text that contains a declared pattern of a
\* state, and no pattern of a state declared before it, returns that state.
C12_DeclaredPatternClassified ==
  call.op = "identifyState" =>
    \A k \in 1..Len(STATE_PATTERNS) :
      (HasPatternOf(k, call.text)
         /\ \A j \in 1..(k - 1) : ~HasPatternOf(j, call.text)) =>
        call.ret = STATE_PATTERNS[k].state

\* 'please enter the prescription number'
GenericPhrase == <<"please", "enter", "the", "prescription", "number">>

\* C27: a prompt with the generic phrase is classified REFILL_PRESCRIPTION
\* when it has the keyword "refill", CHECK_STATUS when it has the keyword
\* "status" and not "refill", and with neither keyword as the state the
\* tracker is in when the prompt is classified, if that state is
\* REFILL_PRESCRIPTION or CHECK_STATUS.
C27_GenericPhraseDisambiguated ==
  LET lowerText == ToLower(call.text)
      active == call.before.currentState
  IN
  (call.op = "identifyState" /\ call.text # NullText
     /\ Includes(lowerText, GenericPhrase)) =>
    IF Includes(lowerText, <<"refill">>) THEN call.ret = REFILL_PRESCRIPTION
    ELSE IF Includes(lowerText, <<"status">>) THEN call.ret = CHECK_STATUS
    ELSE /\ active = REFILL_PRESCRIPTION => call.ret = REFILL_PRESCRIPTION
         /\ active = CHECK_STATUS => call.ret = CHECK_STATUS

\* a special case or a pattern of the static table matches the text
StaticallyMatched(text) ==
  /\ text \notin {<<>>, NullText}
  /\ \/ Includes(ToLower(text), GenericPhrase)
     \/ Includes(ToLower(text), <<"for", "new", "prescriptions", "or", "to",
                                   "authorize", "refills">>)
     \/ Includes(ToLower(text), <<"leave", "your", "message", "after", "the", "tone">>)
     \/ Includes(ToLower(text), <<"invalid", "selection">>)
     \/ \E k \in 1..Len(STATE_PATTERNS) : HasPatternOf(k, text)

\* a pattern of the registry matches the text
RegistryMatched(registry, text) ==
  /\ text \notin {<<>>, NullText}
  /\ \E i \in 1..Len(registry) : \E k \in 1..Len(registry[i].patterns) :
       Includes(ToLower(text), ToLower(registry[i].patterns[k]))

\* C28: a prompt that a special case or a static pattern matches is
\* classified as it is by a tracker with an empty registry, whatever has been
\* registered, and a prompt that neither those nor a registered pattern
\* matches is classified UNKNOWN.
C28_RegistryConsultedLast ==
  call.op = "identifyState" =>
    LET bare == [call.before EXCEPT !.discoveredPatterns = <<>>] IN
    /\ StaticallyMatched(call.text) =>
         /\ call.ret = identifyState(bare, call.text)
         /\ call.ret \in IvrStateSet \ {UNKNOWN}
    /\ (~StaticallyMatched(call.text)
          /\ ~RegistryMatched(call.before.discoveredPatterns, call.text)) =>
         call.ret = UNKNOWN

C28_Witness ==
  /\ call.op = "identifyState"
  /\ call.text = WeeklyPrompt
  /\ RegistryMatched(call.before.discoveredPatterns, call.text)
  /\ StaticallyMatched(call.text)
  /\ call.ret = WEEKLY_HOURS

\* the registry with its states in the opposite order
Reverse(registry) ==
  [i \in 1..Len(registry) |-> registry[Len(registry) + 1 - i]]

\* C29: a tracker classifies every prompt as does a tracker with the same
\* previous state whose registry holds the same pattern lists for the same
\* states, those states having been registered in the opposite order.
C29_RegistrationOrderIrrelevant ==
  LET t == trackers[TesterTracker]
      other == [t EXCEPT !.discoveredPatterns = Reverse(@)]
  IN \A text \in RegistryTexts : identifyState(t, text) = identifyState(other, text)

\* C30: identifyState leaves the tracker it is called on as it was: current
\* and previous state, history, tallies, discovered states and registry.
C30_IdentifyStateReadsOnly ==
  call.op = "identifyState" =>
    LET t == trackers[call.inst] IN
    /\ t.currentState = call.before.currentState
    /\ t.previousState = call.before.previousState
    /\ t.stateHistory = call.before.stateHistory
    /\ t.stateTransitions = call.before.stateTransitions
    /\ t.discoveredStates = call.before.discoveredStates
    /\ t.discoveredPatterns = call.before.discoveredPatterns

C30_Witness ==
  /\ call.op = "identifyState"
  /\ call.text = WeeklyPrompt
  /\ call.ret = WEEKLY_HOURS
  /\ call.before.currentState = REFILL_PRESCRIPTION
  /\ call.before.discoveredPatterns # <<>>
  /\ trackers[call.inst].currentState = REFILL_PRESCRIPTION
  /\ trackers[call.inst].stateHistory = <<REFILL_PRESCRIPTION>>

\* list `old` is the beginning of list `new`
IsPrefix(old, new) ==
  Len(old) <= Len(new) /\ SubSeq(new, 1, Len(old)) = old

\* registry `new` holds every state of registry `old` at the same place, with
\* a pattern list that begins with the old one
RegistryGrown(old, new) ==
  /\ Len(old) <= Len(new)
  /\ \A k \in 1..Len(old) :
       new[k].state = old[k].state /\ IsPrefix(old[k].patterns, new[k].patterns)

\* no state of the registry has the same pattern twice
NoPatternTwice(registry) ==
  \A k \in 1..Len(registry) :
    \A m, n \in 1..Len(registry[k].patterns) :
      registry[k].patterns[m] = registry[k].patterns[n] => m = n

\* C31: no operation on a tracker removes a registered pattern or a
\* discovered state, no state of the registry ever has a pattern twice, and
\* an operation other than addStatePattern leaves the registry as it was.
C31_RegistryOnlyGrows ==
  /\ [](\A i \in Instances : NoPatternTwice(trackers[i].discoveredPatterns))
  /\ [][\A i \in Instances :
          /\ RegistryGrown(trackers[i].discoveredPatterns,
                           trackers'[i].discoveredPatterns)
          /\ trackers[i].discoveredStates \subseteq trackers'[i].discoveredStates
          /\ call'.op # "addStatePattern" =>
               trackers'[i].discoveredPatterns = trackers[i].discoveredPatterns]_vars

C31_Witness ==
  /\ call.op = "addStatePattern"
  /\ call.text = <<"department">>
  /\ call.before.discoveredPatterns =
       << [state |-> "operator",
           patterns |-> << <<"business", "hours">>, <<"department">> >>] >>
  /\ trackers[call.inst].discoveredPatterns = call.before.discoveredPatterns
  /\ trackers[call.inst].discoveredStates # {}

\* C14: in mode explore getNextAction returns the option at index
\* explorationDepth mod n of the current state's list of n options, the list
\* being the one of UNKNOWN (all digits, '*', '#') for a state that has none.
C14_ExplorationRoundRobin ==
  (call.op = "getNextAction" /\ call.mode = "explore") =>
    LET s == call.before.currentState
        list == IF s \in DtmfOptionStates
                  THEN STATE_DTMF_OPTIONS(s)
                  ELSE STATE_DTMF_OPTIONS(UNKNOWN)
    IN /\ call.ret.input = <<list[(call.depth % Len(list)) + 1]>>
       /\ s \notin DtmfOptionStates => call.ret.input[1] \in Digits \cup {"*", "#"}
       /\ ~call.threw

C14_Witness ==
  /\ call.op = "getNextAction" /\ call.mode = "explore"
  /\ call.before.currentState = PHARMACY_HOURS
  /\ call.depth = 3
  /\ call.ret.input = <<"1">>

\* C15: in mode normal getNextAction returns an action for every current
\* state without raising, and the input is empty for UNKNOWN, for
\* TRANSFER_TO_PHARMACY and for every state the switch has no branch for.
C15_ScriptedFailsClosed ==
  (call.op = "getNextAction" /\ call.mode = "normal") =>
    LET s == call.before.currentState IN
    /\ ~call.threw
    /\ call.ret.action \in {"continue", "hours", "weekly", "back", "default",
                             "confirm", "transfer", "finish"}
    /\ (s \in {UNKNOWN, TRANSFER_TO_PHARMACY} \/ s \notin IvrStateSet) =>
         call.ret.input = <<>>

C15_Witness ==
  /\ call.op = "getNextAction" /\ call.mode = "normal"
  /\ call.before.currentState = "billing"
  /\ call.ret = [action |-> "default", input |-> <<>>]

\* C20: a request leg of a step whose response is not the one the dispatch
\* ends with (leg 1 of a split input, a blank leg 2 that a recovery leg
\* follows) leaves the current state, the state history and the transition
\* tallies of the tester's tracker as they were.
C20_IntermediateLegsNotTracked ==
  [][(pc \in {"dispatch", "secondLeg"} /\ pc' \in {"secondLeg", "recover"}) =>
       /\ trackers'[TesterTracker].currentState = trackers[TesterTracker].currentState
       /\ trackers'[TesterTracker].stateHistory = trackers[TesterTracker].stateHistory
       /\ trackers'[TesterTracker].stateTransitions =
            trackers[TesterTracker].stateTransitions]_vars

----------------------------------------------------------------------------
(* Properties of the scripted flows *)

\* C22: every request leg of a call whose input has two or more characters
\* is the second leg of a split input: the leg before it is a sendDtmf leg
\* with exactly one character, both legs enter the same input, and the two
\* inputs together are that input.
C22_NoUnsplitMultiCharInput ==
  \A k \in 1..Len(legs) :
    Len(legs[k].digits) >= 2 =>
      /\ k >= 2
      /\ legs[k - 1].op = "sendDtmf"
      /\ Len(legs[k - 1].digits) = 1
      /\ legs[k - 1].input = legs[k].input
      /\ legs[k - 1].digits \o legs[k].digits = legs[k].input

\* C24: whenever startCall is called the tracker's current state is UNKNOWN
\* and its history is empty, and the first prompt of the call changes no
\* transition tally.
C24_CallStartsFromUnknown ==
  started.calls >= 1 =>
    /\ started.before.currentState = UNKNOWN
    /\ started.before.stateHistory = <<>>
    /\ pc = "flowToMenu" =>
         trackers[TesterTracker].stateTransitions = started.before.stateTransitions

----------------------------------------------------------------------------
(* Properties of the session API server *)

\* every cleanup run removes exactly the sessions idle for more than the
\* timeout, and a session id the cleanup has removed is never a session again
CleanupRemovesIdle ==
  /\ event.kind = "cleanup" =>
       \A id \in DOMAIN event.idle :
         id \in event.left <=> event.idle[id] <= SESSION_TIMEOUT
  /\ timedOut \cap DOMAIN sessions = {}

\* C19 as stated: the cleanup removes a session at its first run after the
\* session has been idle for more than 10 minutes and never one idle for at
\* most 10 minutes, and afterwards every request on that session id is
\* answered 'Session not found'.
C19_EveryRequestNotFound ==
  /\ CleanupRemovesIdle
  /\ (event.kind = "reply" /\ event.expired) =>
       (event.status = 404 /\ event.error = "Session not found")

\* C19 amended: as stated, for every request on that session id but the
\* posting of a message with no message in its body, which is answered
\* 'No message provided' whether the session exists or not.
C19_TimedOutSessionNotFound ==
  /\ CleanupRemovesIdle
  /\ (event.kind = "reply" /\ event.expired) =>
       IF event.req = "send" /\ event.message = <<>>
         THEN event.status = 400 /\ event.error = "No message provided"
         ELSE event.status = 404 /\ event.error = "Session not found"

C19_Witness ==
  /\ event.kind = "reply" /\ event.req = "send" /\ event.message = <<"hello">>
  /\ event.id = 1 /\ event.expired
  /\ event.status = 404
  /\ now = 11 * SESSION_CHECK_INTERVAL
  /\ sessions = <<>>

----------------------------------------------------------------------------
(* The taxonomy tables *)

\* the states for which STATE_DTMF_OPTIONS declares no exploration candidates
\* (the table leaves out the states that expect a specific input)
WithoutDtmfOptions ==
  { GREETING, REFILL_PRESCRIPTION, CHECK_STATUS, TRANSFER_TO_PHARMACY,
    ENTER_RX_NUMBER, INVALID_SELECTION }

\* every successor a state lists is a declared state, and UNKNOWN lists them all
SuccessorsDeclared ==
  /\ \A s \in TransitionStates : STATE_TRANSITIONS(s) \subseteq IvrStateSet
  /\ STATE_TRANSITIONS(UNKNOWN) = IvrStateSet

C35_ScriptAgreesWithInputs ==
  (call.op = "getNextAction" /\ call.mode = "normal"
     /\ call.before.currentState \in IvrStateSet) =>
    call.ret.input = getInput(call.before, call.ret.action, <<>>)

----------------------------------------------------------------------------
(* The fields of a tracker *)

\* the state that was current just before the last entry of the history was
\* appended: the entry before it, UNKNOWN for the first entry (a new and a
\* reset tracker are in UNKNOWN), and null when nothing has been appended
BeforeLastAppend(t) ==
  IF t.stateHistory = <<>> THEN Null
  ELSE IF Len(t.stateHistory) = 1 THEN UNKNOWN
  ELSE t.stateHistory[Len(t.stateHistory) - 1]

\* C33: after any sequence of updateState, addStatePattern and reset, the
\* current state is the last entry of the history (UNKNOWN when the history is
\* empty), the previous state is the state that was current just before the
\* last entry was appended (null when the history is empty), and no two
\* adjacent entries of the history are equal.
C33_FieldsAgreeWithHistory ==
  /\ \A i \in Instances :
       LET t == trackers[i] IN
       /\ t.currentState = IF t.stateHistory = <<>> THEN UNKNOWN
                           ELSE t.stateHistory[Len(t.stateHistory)]
       /\ t.previousState = BeforeLastAppend(t)
       /\ \A n \in 1..(Len(t.stateHistory) - 1) :
            t.stateHistory[n] # t.stateHistory[n + 1]
  /\ (call.op = "updateState"
        /\ trackers[call.inst].stateHistory # call.before.stateHistory) =>
       trackers[call.inst].previousState = call.before.currentState

C33_Witness ==
  /\ call.op = "updateState"
  /\ call.before.stateHistory = <<WEEKLY_HOURS>>
  /\ call.before.previousState = UNKNOWN
  /\ trackers[call.inst].stateHistory = <<WEEKLY_HOURS, UNKNOWN>>
  /\ trackers[call.inst].previousState = WEEKLY_HOURS
  /\ trackers[call.inst].currentState = UNKNOWN

----------------------------------------------------------------------------
(* The transition tallies of a tracker that is never reset *)

RECURSIVE SumOfRow(_, _, _)
\* the sum of the tallies of tracker t from state s to the states of `targets`
SumOfRow(t, s, targets) ==
  IF targets = {} THEN 0
  ELSE LET n == CHOOSE q \in targets : TRUE
       IN TallyOf(t, s, n) + SumOfRow(t, s, targets \ {n})

RECURSIVE SumOfTallies(_, _)
\* the sum of all tallies of tracker t from the states of `sources`
SumOfTallies(t, sources) ==
  IF sources = {} THEN 0
  ELSE LET s == CHOOSE q \in sources : TRUE
       IN SumOfRow(t, s, SeenStates) + SumOfTallies(t, sources \ {s})

\* the number of history entries that were appended while the current state
\* (the entry before, UNKNOWN for the first) was not UNKNOWN
AppendedOutsideUnknown(t) ==
  Cardinality({n \in 2..Len(t.stateHistory) : t.stateHistory[n - 1] # UNKNOWN})

\* C34: on trackers that are never reset, the tallies sum to the number of
\* history entries appended while the current state was not UNKNOWN, the
\* tally of a pair (s, s) and of a pair with source UNKNOWN is zero, and no
\* tally ever decreases.
C34_TalliesConsistent ==
  /\ [](\A i \in Instances :
          /\ SumOfTallies(trackers[i], SeenStates) =
               AppendedOutsideUnknown(trackers[i])
          /\ \A s \in SeenStates :
               /\ TallyOf(trackers[i], s, s) = 0
               /\ TallyOf(trackers[i], UNKNOWN, s) = 0)
  /\ [][\A i \in Instances : \A s \in SeenStates, n \in SeenStates :
          TallyOf(trackers'[i], s, n) >= TallyOf(trackers[i], s, n)]_vars

C34_Witness ==
  /\ call.op = "updateState"
  /\ trackers[call.inst].stateHistory =
       <<WEEKLY_HOURS, UNKNOWN, WEEKLY_HOURS, UNKNOWN>>
  /\ TallyOf(call.before, WEEKLY_HOURS, UNKNOWN) = 1
  /\ TallyOf(trackers[call.inst], WEEKLY_HOURS, UNKNOWN) = 2

----------------------------------------------------------------------------
(* The methods of the tester called in any order *)

\* the n-th call of the log is made inside an active call: a startCall before
\* it succeeded, and no endCall between the last such startCall and it did
InsideCall(log, n) ==
  \E k \in 1..(n - 1) :
    /\ log[k] = TesterCall("startCall", "ok", Null)
    /\ \A j \in (k + 1)..(n - 1) : log[j] # TesterCall("endCall", "ok", Null)

\* C36: sendDtmf and continueCall make a request only between a successful
\* startCall and the next successful endCall; called before any startCall or
\* after a successful endCall they raise 'No active call' without a request,
\* and leave the tracker and lastResponse as they were.
C36_LegsOnlyInsideCall ==
  /\ [](\A n \in 1..Len(legs) :
          legs[n].op \in {"sendDtmf", "continueCall"} =>
            IF InsideCall(legs, n)
              THEN legs[n].outcome \in {"ok", "failed"}
              ELSE legs[n] = TesterCall(legs[n].op, "refused", "No active call"))
  /\ [][(Len(legs') > Len(legs) /\ legs'[Len(legs')].outcome = "refused") =>
          UNCHANGED <<trackers, lastResponse, callActive, sid>>]_vars

C36_Witness ==
  /\ Len(legs) = 4
  /\ legs[1] = TesterCall("startCall", "ok", Null)
  /\ legs[2] = TesterCall("sendDtmf", "ok", Null)
  /\ legs[3] = TesterCall("endCall", "ok", Null)
  /\ legs[4] = TesterCall("continueCall", "refused", "No active call")
  /\ trackers[TesterTracker].currentState = MAIN_MENU
  /\ sid # Null /\ ~callActive

----------------------------------------------------------------------------
(* Cleaning up at the end of a run *)

\* C37: once the call has been started, runAutomatedNavigation does not
\* return before endCall has been attempted; once the AI session has been
\* created, it does not return before endSession has made its request; and no
\* sendDtmf or continueCall leg is made after endCall has succeeded.
C37_CleanupOnEveryExit ==
  /\ [](callActive => [](result.returned => endCalls >= 1))
  /\ [](sessionId # Null => [](result.returned => endSessions >= 1))
  /\ [][(legs' # legs /\ legs' # <<>>) => (callActive /\ callActive')]_vars

C37_Witness ==
  /\ result.returned /\ result.failed
  /\ result.steps = 1
  /\ Len(legs) = 1 /\ ~legs[1].ok
  /\ endCalls = 1 /\ endSessions = 1
  /\ callActive /\ sessionId # Null

----------------------------------------------------------------------------
(* The result of a run *)

\* C38: whatever ends a run on a new IvrIntegration (a hang-up, the step
\* limit, a failure in the middle of a step), the steps count of the result
\* is the number of entries of its history, and the entries are numbered
\* 1..steps in order.
C38_StepsCountHistory ==
  result.returned =>
    /\ result.steps = Len(result.history)
    /\ \A j \in 1..Len(result.history) : result.history[j].step = j

----------------------------------------------------------------------------
(* The messages of a session *)

\* C39: in every session the stored messages alternate user, assistant,
\* user, assistant, ... from the first one on, after any sequence of sends,
\* those whose wrapper script failed included.
C39_MessagesAlternate ==
  \A id \in DOMAIN sessions :
    \A n \in 1..Len(sessions[id].messages) :
      sessions[id].messages[n] = IF n % 2 = 1 THEN "user" ELSE "assistant"

====
